---- MODULE Spec2Model ----
(***************************************************************************)
(* Model of code-health.ts: nine checks run in sequence, their issues are  *)
(* totalled and graded, two report files are written and the process       *)
(* exits.  Tool output is abstracted line by line and finding by finding:  *)
(* a line is the set of marker substrings the code tests it for, a parsed  *)
(* JSON document is its shape together with the findings the code walks.   *)
(* An issue of the pipeline carries the two fields the aggregator and the  *)
(* report read (type and rule); the issues of the complexity, structure    *)
(* and jscpd checks also carry what their message names.  compactIssue is  *)
(* modelled on full issues with character strings, analyzeFile on a file   *)
(* content of characters.                                                  *)
(***************************************************************************)
EXTENDS Integers, Sequences, FiniteSets, TLC

VARIABLES
    isQuick,            \* --quick flag (line 25)
    configFound,        \* stat(.dependency-cruiser.cjs) succeeds (line 978)
    pc,                 \* position of main / of the specification in use
    checks,             \* main: checks[]
    totals,             \* main: totals {errors, warnings, info}
    grade,              \* report.grade
    exitCode,           \* process exit status, -1 while running
    spawned,            \* tools handed to runCommand so far
    written,            \* report files written so far
    caughtIn,           \* names of the checks one of whose catch blocks ran
    failure,            \* what made main() reject: "none", "mkdir", "check", "writeFile"
    actionItems,        \* generateMarkdownReport: the priority action list
    ckResult,           \* single-check runs: the CheckResult returned
    ckInput,            \* single-check runs: the tool output it was given
    folders,            \* single-check runs: checkStructure's folders
    issueA, issueB,     \* compactIssue runs: two issues
    compactA, compactB, \* compactIssue runs: their encodings
    lines,              \* detectLongFunctions: content.split("\n")
    decls,              \* detectLongFunctions: the declarations the text was built from
    i,                  \* detectLongFunctions: loop index (0-based)
    currentFunction, functionStartLine, braceDepth, inFunction, longFunctions,
    source,             \* analyzeFile runs: the fragments the file was written from
    content,            \* analyzeFile: content, a sequence of characters
    analysis            \* analyzeFile: the FileAnalysis returned

pipeVars == <<isQuick, configFound, pc, checks, totals, grade, exitCode, spawned, written,
             caughtIn, failure>>
mdVars == <<actionItems>>
ckVars == <<ckResult, ckInput, folders>>
compactVars == <<issueA, issueB, compactA, compactB>>
lfVars == <<lines, decls, i, currentFunction, functionStartLine, braceDepth,
            inFunction, longFunctions>>
afVars == <<source, content, analysis>>
vars == <<pipeVars, mdVars, ckVars, compactVars, lfVars, afVars>>

----------------------------------------------------------------------------
(* Bounds *)
MaxErrors == 7
MaxWarnings == 17
MaxInfo == 1
MaxItems == 2       \* findings of one parsed document
MaxText == 2        \* lines of one tool output
MaxJscpdLines == 3  \* lines of one free-form jscpd output
MaxBlocks == 11     \* well-formed clone blocks of one jscpd output
MaxFiles == 6       \* source files of one complexity run

----------------------------------------------------------------------------
(* Thresholds (lines 47-58) *)
FILE_LINES_WARNING == 300
FILE_LINES_ERROR == 500
COMPONENT_HOOKS_WARNING == 6
COMPONENT_HOOKS_ERROR == 10
COMPONENT_USEEFFECT_WARNING == 4
COMPONENT_USEMEMO_WARNING == 6
FOLDER_DEPTH_WARNING == 5
FOLDER_DEPTH_ERROR == 7
FILES_PER_FOLDER_WARNING == 15
FILES_PER_FOLDER_ERROR == 25

----------------------------------------------------------------------------
(* Sequence helpers *)
MapSeq(s, F(_)) == [k \in 1..Len(s) |-> F(s[k])]

RECURSIVE Flatten(_)
Flatten(ss) == IF ss = <<>> THEN <<>> ELSE Head(ss) \o Flatten(Tail(ss))

RECURSIVE Repeat(_, _)
Repeat(x, n) == IF n <= 0 THEN <<>> ELSE <<x>> \o Repeat(x, n - 1)

SeqsUpTo(S, n) == UNION {[1..k -> S] : k \in 0..n}

NoRule == ""

Issue(t, r) == [type |-> t, rule |-> r]

\* issues.filter(i => i.type === t).length
CountType(issues, t) == Len(SelectSeq(issues, LAMBDA x : x.type = t))

----------------------------------------------------------------------------
(* Check results.  A check returns its CheckResult; the model also records *)
(* which tools it handed to runCommand and whether one of its catch blocks *)
(* ran.  summary is "counts" for the templates made of issue counts.       *)

Outcome(name, status, issues, summary, tools, caught) ==
    [result |-> [name |-> name, status |-> status, issues |-> issues,
                 summary |-> summary],
     spawned |-> tools, caught |-> caught]

\* a promise that rejects instead of resolving to a CheckResult
Rejected(name, tools) == Outcome(name, "rejected", <<>>, "rejected", tools, FALSE)

\* errors > 0 ? "fail" : warnings > limit ? "warn" : "pass"
StatusOf(issues, limit) ==
    IF CountType(issues, "error") > 0 THEN "fail"
    ELSE IF CountType(issues, "warning") > limit THEN "warn"
    ELSE "pass"

\* elements a for-of loop visits before one of them makes the body throw
RECURSIVE BeforeThrow(_)
BeforeThrow(items) ==
    IF items = <<>> \/ Head(items) = "throw" THEN <<>>
    ELSE <<Head(items)>> \o BeforeThrow(Tail(items))

Throws(items) == \E k \in 1..Len(items) : items[k] = "throw"

\* stdout.split("\n").filter(Boolean), then the lines holding a marker
MarkedLines(text, markers) == SelectSeq(text, LAMBDA l : l \in markers)

(* oxlint, lines 172-223.  out.json is what JSON.parse(stdout) gives:      *)
(* "invalid" (throws), "null" (parses, property access throws),            *)
(* "diagnostics" ({diagnostics: [...]}), "array", "object" (any other      *)
(* object).  out.items are the severities of the diagnostics, "throw" for  *)
(* an element whose fields cannot be read.  out.text are the non-empty     *)
(* lines of stdout: "error", "warning" by the marker they include.         *)
checkOxlint_NoCatch(out) ==
    IF out.json \in {"invalid", "null"} \/ Throws(out.items)
    THEN Rejected("Linting (oxlint)", {"oxlint"})
    ELSE LET issues == MapSeq(out.items,
                 LAMBDA s : Issue(IF s = "error" THEN "error" ELSE "warning", NoRule))
         IN  Outcome("Linting (oxlint)", StatusOf(issues, 0), issues, "counts",
                     {"oxlint"}, FALSE)

checkOxlint(out) ==
    LET diagnostics == IF out.json \in {"diagnostics", "array"} THEN out.items ELSE <<>>
        walked == MapSeq(BeforeThrow(diagnostics),
                     LAMBDA s : Issue(IF s = "error" THEN "error" ELSE "warning", NoRule))
        caught == out.json \in {"invalid", "null"} \/ Throws(diagnostics)
        scanned == MapSeq(MarkedLines(out.text, {"error", "warning"}),
                      LAMBDA l : Issue("warning", NoRule))
        issues == IF caught THEN walked \o scanned ELSE walked
    IN  Outcome("Linting (oxlint)", StatusOf(issues, 0), issues, "counts",
                {"oxlint"}, caught)

(* ESLint, lines 114-170.  out.json: "invalid", "null", "array" (the       *)
(* results array), "results" ({results: [...]}), "object".  out.items are  *)
(* the messages of all results in order: "error" for severity 2,           *)
(* "warning" for any other severity, "throw".                              *)
checkEslint(out) ==
    LET messages == IF out.json \in {"array", "results"} THEN out.items ELSE <<>>
        walked == MapSeq(BeforeThrow(messages),
                     LAMBDA s : Issue(IF s = "error" THEN "error" ELSE "warning", NoRule))
        caught == out.json \in {"invalid", "null"} \/ Throws(messages)
        scanned == MapSeq(MarkedLines(out.text, {"error", "warning"}),
                      LAMBDA l : Issue(IF l = "error" THEN "error" ELSE "warning", NoRule))
        issues == IF caught THEN walked \o scanned ELSE walked
    IN  Outcome("Import & Complexity (ESLint)", StatusOf(issues, 0), issues,
                "counts", {"eslint"}, caught)

(* knip, lines 225-388.  out.items are the findings in the order the code  *)
(* visits them, each named by the array it sits in.                        *)
KnipIssue(kind) ==
    CASE kind = "file"          -> Issue("warning", "knip/unused-file")
      [] kind = "dependency"    -> Issue("warning", "knip/unused-dependency")
      [] kind = "devDependency" -> Issue("info", "knip/unused-devdep")
      [] kind = "export"        -> Issue("info", "knip/unused-export")
      [] kind = "type"          -> Issue("info", "knip/unused-type")
      [] kind = "unresolved"    -> Issue("error", "knip/unresolved")
      [] kind = "duplicate"     -> Issue("info", "knip/duplicate-export")
      [] kind = "oldExport"     -> Issue("info", "knip/unused-export")
      [] kind = "oldDependency" -> Issue("warning", "knip/unused-dependency")
      [] kind = "unlisted"      -> Issue("error", "knip/unlisted-dependency")

KnipKinds == {"file", "dependency", "devDependency", "export", "type",
              "unresolved", "duplicate", "oldExport", "oldDependency", "unlisted"}

checkKnip(out) ==
    LET findings == IF out.json = "object" THEN out.items ELSE <<>>
        walked == MapSeq(BeforeThrow(findings), KnipIssue)
        caught == out.json \in {"invalid", "null"} \/ Throws(findings)
        scanned == MapSeq(MarkedLines(out.text, {"unused"}),
                      LAMBDA l : Issue("warning", NoRule))
        issues == IF caught THEN walked \o scanned ELSE walked
    IN  Outcome("Dead Code (knip)", StatusOf(issues, 0), issues, "counts",
                {"knip"}, caught)

(* jscpd, lines 390-514.  out.text are the lines of stdout+stderr.  A line *)
(* is what the patterns of the code see in it once the escape sequences    *)
(* are gone (kind), the file and line range it names (span, 0 when it      *)
(* names none) and whether it holds colour escape sequences (ansi):        *)
(*   "clone"      Clone found (<lang>):        header the block pattern takes *)
(*   "cloneBare"  a line that includes "Clone found" in another form       *)
(*   "file1"      " - <file> [a:b - c:d] (<n> lines, ...)"                  *)
(*   "file2"      "   <file> [a:b - c:d]", indented                        *)
(*   "file2flush" "<file> [a:b - c:d]" at column 0                         *)
(*   "log", "blank"                                                        *)
(* out.stats: the JSON report exists and its percentage is > 0.            *)
JscpdLineKinds == {"clone", "cloneBare", "file1", "file2", "file2flush", "log", "blank"}

JLine(kind, span, ansi) == [kind |-> kind, span |-> span, ansi |-> ansi]

StripAnsi_Keeps(text) == text

\* output.replace(/\u001b\[[0-9;]*m/g, ""), line 423
StripAnsi(text) == [k \in 1..Len(text) |-> [text[k] EXCEPT !.ansi = FALSE]]

\* what the patterns match in a line; escape sequences inside it break them
Seen(line) == IF line.ansi THEN "log" ELSE line.kind

\* \s*\n\s* runs over blank lines: first index >= k that is not blank
RECURSIVE SkipBlank(_, _)
SkipBlank(text, k) ==
    IF k <= Len(text) /\ Seen(text[k]) = "blank" THEN SkipBlank(text, k + 1) ELSE k

\* cloneRegex.exec loop, lines 426-443: the matches from line k on, each as
\* the indexes of its two file lines
RECURSIVE CloneRegexMatches(_, _)
CloneRegexMatches(text, k) ==
    IF k > Len(text) THEN <<>>
    ELSE IF Seen(text[k]) = "clone"
      THEN LET a == SkipBlank(text, k + 1)
               b == SkipBlank(text, a + 1)
           IN  IF /\ a <= Len(text) /\ Seen(text[a]) = "file1"
                  /\ b <= Len(text) /\ Seen(text[b]) \in {"file1", "file2", "file2flush"}
               THEN <<<<a, b>>>> \o CloneRegexMatches(text, b + 1)
               ELSE CloneRegexMatches(text, k + 1)
    ELSE CloneRegexMatches(text, k + 1)

HasCloneFound(text) == \E k \in 1..Len(text) : Seen(text[k]) \in {"clone", "cloneBare"}

\* the line-by-line scan, lines 451-475: the blocks it recognises
RECURSIVE CloneLineMatches(_, _)
CloneLineMatches(text, k) ==
    IF k > Len(text) THEN <<>>
    ELSE LET hit == /\ Seen(text[k]) \in {"clone", "cloneBare"}
                    /\ k + 1 <= Len(text) /\ Seen(text[k + 1]) = "file1"
                    /\ k + 2 <= Len(text) /\ Seen(text[k + 2]) \in {"file1", "file2"}
         IN  (IF hit THEN <<<<k + 1, k + 2>>>> ELSE <<>>) \o CloneLineMatches(text, k + 1)

\* a duplicate issue names the file and range of both file lines
DuplicateIssue(text, m) ==
    [type |-> "warning", rule |-> "jscpd/duplicate",
     spans |-> <<text[m[1]].span, text[m[2]].span>>]

\* Found ${count} code duplications, lines 478-484
CountOnlyIssue == [type |-> "warning", rule |-> "jscpd/duplicate", spans |-> <<>>]

JscpdIssues_NoFallback(text) ==
    LET cleanOutput == StripAnsi(text)
        primary == CloneRegexMatches(cleanOutput, 1)
        coarse == CloneLineMatches(cleanOutput, 1)
    IN  IF primary # <<>>
          THEN [k \in 1..Len(primary) |-> DuplicateIssue(cleanOutput, primary[k])]
        ELSE IF ~HasCloneFound(cleanOutput) THEN <<>>
        ELSE [k \in 1..Len(coarse) |-> DuplicateIssue(cleanOutput, coarse[k])]

JscpdIssues(text) ==
    LET cleanOutput == StripAnsi(text)
        primary == CloneRegexMatches(cleanOutput, 1)
        coarse == CloneLineMatches(cleanOutput, 1)
    IN  IF primary # <<>>
          THEN [k \in 1..Len(primary) |-> DuplicateIssue(cleanOutput, primary[k])]
        ELSE IF ~HasCloneFound(cleanOutput) THEN <<>>
        ELSE IF coarse # <<>>
          THEN [k \in 1..Len(coarse) |-> DuplicateIssue(cleanOutput, coarse[k])]
        ELSE <<CountOnlyIssue>>

checkJscpd_IgnoresQuick(quick, out) ==
    LET dup == JscpdIssues(out.text)
        issues == IF out.stats THEN Append(dup, Issue("info", "jscpd/stats")) ELSE dup
    IN  Outcome("Duplicate Code (jscpd)",
                IF CountType(issues, "warning") > 10 THEN "warn" ELSE "pass",
                issues, "counts", {"jscpd"}, FALSE)

checkJscpd(quick, out) ==
    IF quick
    THEN Outcome("Duplicate Code (jscpd)", "skip", <<>>, "Skipped (--quick mode)",
                 {}, FALSE)
    ELSE LET dup == JscpdIssues(out.text)
             issues == IF out.stats THEN Append(dup, Issue("info", "jscpd/stats"))
                       ELSE dup
         IN  Outcome("Duplicate Code (jscpd)",
                     IF CountType(issues, "warning") > 10 THEN "warn" ELSE "pass",
                     issues, "counts", {"jscpd"}, FALSE)

(* madge, lines 516-601.  out.orphans are the lines of the --orphans run:  *)
(* "orphan" a .ts/.tsx path, "config" a path that includes config.ts or    *)
(* _generated, "noise" a line the filter drops.  out.circular are the      *)
(* lines of the --circular run: "cycle" a line with an arrow, "noise".     *)
MadgeOrphanIssue(kind) ==
    Issue(IF kind = "config" THEN "info" ELSE "warning", "madge/orphan")

checkMadge(quick, out) ==
    IF quick
    THEN Outcome("Dependency Graph (madge)", "skip", <<>>, "Skipped (--quick mode)",
                 {}, FALSE)
    ELSE LET orphans == MapSeq(MarkedLines(out.orphans, {"orphan", "config"}),
                               MadgeOrphanIssue)
             cycles == MapSeq(MarkedLines(out.circular, {"cycle"}),
                              LAMBDA l : Issue("error", "madge/circular"))
             issues == orphans \o cycles
         IN  Outcome("Dependency Graph (madge)", StatusOf(issues, 0), issues,
                     "counts", {"madge"}, FALSE)

(* TypeScript, lines 603-648.  out.text are the lines of stdout+stderr:    *)
(* "tsError" file(l,c): error TSnnnn: msg; "looseError" any other line     *)
(* that includes "error TS" or ": error"; "plain".                         *)
checkTypeScript(out) ==
    LET errorLines == MarkedLines(out.text, {"tsError", "looseError"})
        issues == MapSeq(errorLines,
                     LAMBDA l : Issue("error", IF l = "tsError" THEN "TS" ELSE NoRule))
    IN  Outcome("TypeScript Types",
                IF Len(issues) > 0 THEN "fail" ELSE "pass",
                issues, "counts", {"turbo"}, FALSE)

(* Complexity, lines 801-953.  out.files are the files findFiles returns,  *)
(* each with what analyzeFile gives for it: readable = FALSE when it       *)
(* returns null, else the line count, the hook counts and the patterns;    *)
(* tsx says whether the path ends in ".tsx".                               *)
If(c, issue) == IF c THEN <<issue>> ELSE <<>>

\* an issue of the complexity check with the numbers its message names and
\* its fix string
ComplexityIssue(t, r, shown, fix) ==
    [type |-> t, rule |-> r, shown |-> shown, fix |-> fix]

FileSizeIssues_Inclusive(f) ==
    IF f.lines >= FILE_LINES_ERROR
      THEN <<ComplexityIssue("error", "complexity/file-size",
                 <<f.lines, FILE_LINES_ERROR>>,
                 "Split into smaller, focused modules. Extract hooks, utilities, and sub-components.")>>
    ELSE IF f.lines >= FILE_LINES_WARNING
      THEN <<ComplexityIssue("warning", "complexity/file-size",
                 <<f.lines, FILE_LINES_WARNING>>,
                 "Consider extracting reusable logic into hooks or utilities.")>>
    ELSE <<>>

FileSizeIssues(f) ==
    IF f.lines > FILE_LINES_ERROR
      THEN <<ComplexityIssue("error", "complexity/file-size",
                 <<f.lines, FILE_LINES_ERROR>>,
                 "Split into smaller, focused modules. Extract hooks, utilities, and sub-components.")>>
    ELSE IF f.lines > FILE_LINES_WARNING
      THEN <<ComplexityIssue("warning", "complexity/file-size",
                 <<f.lines, FILE_LINES_WARNING>>,
                 "Consider extracting reusable logic into hooks or utilities.")>>
    ELSE <<>>

HookIssues(f) ==
    LET h == f.hooks
        totalHooks == h.useState + h.useEffect + h.useMemo + h.useCallback
                        + h.useRef + h.custom
    IN  IF ~f.tsx THEN <<>>
        ELSE (IF totalHooks >= COMPONENT_HOOKS_ERROR
                THEN <<ComplexityIssue("error", "complexity/too-many-hooks",
                           <<totalHooks, h.useState, h.useEffect, h.useMemo,
                             h.useCallback, h.custom>>,
                           "Extract related hooks into a custom hook (e.g., useComponentNameState). Split component into smaller pieces.")>>
              ELSE IF totalHooks >= COMPONENT_HOOKS_WARNING
                THEN <<ComplexityIssue("warning", "complexity/too-many-hooks",
                           <<totalHooks>>,
                           "Consider extracting related state and effects into a custom hook.")>>
              ELSE <<>>)
             \o If(h.useEffect >= COMPONENT_USEEFFECT_WARNING,
                   ComplexityIssue("warning", "complexity/effect-sprawl",
                       <<h.useEffect>>,
                       "Consolidate related effects or extract to custom hooks. Consider if effects can be replaced with event handlers."))
             \o If(h.useMemo + h.useCallback >= COMPONENT_USEMEMO_WARNING,
                   ComplexityIssue("info", "complexity/over-memoization",
                       <<h.useMemo, h.useCallback>>,
                       "Review if all memos are necessary. React 19 compiler handles most memoization automatically."))

Min(a, b) == IF a <= b THEN a ELSE b

PatternIssues(f) ==
    LET p == f.patterns
    IN  If(p.inlineErrorBoundary, Issue("warning", "pattern/inline-error-boundary"))
        \o If(p.multipleComponents, Issue("info", "pattern/multiple-components"))
        \o Repeat(Issue("warning", "complexity/long-function"),
                  Min(Len(p.longFunctions), 3))
        \o If(p.mixedConcerns, Issue("info", "pattern/mixed-concerns"))

FileIssues(f) ==
    IF ~f.readable THEN <<>>
    ELSE FileSizeIssues(f) \o HookIssues(f) \o PatternIssues(f)

checkComplexity_WarnAtOne(out) ==
    LET issues == Flatten(MapSeq(out.files, FileIssues))
    IN  Outcome("Complexity Analysis", StatusOf(issues, 0), issues, "counts", {}, FALSE)

checkComplexity(out) ==
    LET issues == Flatten(MapSeq(out.files, FileIssues))
    IN  Outcome("Complexity Analysis", StatusOf(issues, 5), issues, "counts", {}, FALSE)

(* Architecture, lines 959-1044.  out.config: .dependency-cruiser.cjs      *)
(* exists.  out.json: "invalid", "null", "summary" (an object with a       *)
(* summary), "object" (one without).  out.items are the severities of      *)
(* output.violations ("error", "warn", anything else "info"; "throw").     *)
(* out.text are the non-empty lines of stdout+stderr, "error" or           *)
(* "violation" by the marker they include.                                 *)
ArchitectureIssue(severity) ==
    Issue(IF severity = "error" THEN "error"
          ELSE IF severity = "warn" THEN "warning" ELSE "info",
          "architecture/violation")

\* the issue returned when stat(configPath) throws, lines 984-988
ConfigMissingIssue_Warning ==
    [type |-> "warning", rule |-> NoRule,
     message |-> "No .dependency-cruiser.cjs config found - skipping architecture check",
     fix |-> "Create .dependency-cruiser.cjs to define module boundaries"]

ConfigMissingIssue ==
    [type |-> "info", rule |-> NoRule,
     message |-> "No .dependency-cruiser.cjs config found - skipping architecture check",
     fix |-> "Create .dependency-cruiser.cjs to define module boundaries"]

checkArchitecture_NoConfigTest(quick, out) ==
    IF quick
    THEN Outcome("Architecture Boundaries", "skip", <<>>, "Skipped (--quick mode)",
                 {}, FALSE)
    ELSE LET violations == IF out.json = "summary" THEN out.items ELSE <<>>
             walked == MapSeq(BeforeThrow(violations), ArchitectureIssue)
             caught == out.json \in {"invalid", "null"} \/ Throws(violations)
             scanned == MapSeq(MarkedLines(out.text, {"error", "violation"}),
                           LAMBDA l : Issue("warning", "architecture/unknown"))
             issues == IF caught THEN walked \o scanned ELSE walked
         IN  Outcome("Architecture Boundaries", StatusOf(issues, 0), issues,
                     "counts", {"dependency-cruiser"}, caught)

checkArchitecture(quick, out) ==
    IF quick
    THEN Outcome("Architecture Boundaries", "skip", <<>>, "Skipped (--quick mode)",
                 {}, FALSE)
    ELSE IF ~out.config
    THEN Outcome("Architecture Boundaries", "skip", <<ConfigMissingIssue>>,
                 "Config not found", {}, TRUE)
    ELSE LET violations == IF out.json = "summary" THEN out.items ELSE <<>>
             walked == MapSeq(BeforeThrow(violations), ArchitectureIssue)
             caught == out.json \in {"invalid", "null"} \/ Throws(violations)
             scanned == MapSeq(MarkedLines(out.text, {"error", "violation"}),
                           LAMBDA l : Issue("warning", "architecture/unknown"))
             issues == IF caught THEN walked \o scanned ELSE walked
         IN  Outcome("Architecture Boundaries", StatusOf(issues, 0), issues,
                     "counts", {"dependency-cruiser"}, caught)

(* Folder walk, lines 1058-1110.  A directory is its name, whether readdir  *)
(* succeeds on it, its immediate files counted by the name tests of the    *)
(* code (tsx: *.tsx; utils: *.ts, not *.d.ts, with util, helper or service *)
(* in the name; hooks: *.ts starting with "use"; other) and its            *)
(* subdirectories in readdir order.  A path is the sequence of names below *)
(* the base path.                                                          *)
Dir(name, readable, files, subs) ==
    [name |-> name, readable |-> readable, files |-> files, subs |-> subs]

Files(tsx, utils, hooks, other) ==
    [tsx |-> tsx, utils |-> utils, hooks |-> hooks, other |-> other]

FileTotal(f) == f.tsx + f.utils + f.hooks + f.other

\* name.includes("node_modules") || includes("_generated") || includes(".git")
NameHasMarker(name) == name \in {"node_modules", "_generated", ".git", ".github"}

\* dir.includes(marker), dir being the base path joined with the names
DirIncludesMarker(path) == \E k \in 1..Len(path) : NameHasMarker(path[k])

\* hasComponents && (hasUtils || hasHooks) && dirs.length === 0 && files.length > 5
MixedContent(node) ==
    /\ node.files.tsx > 0
    /\ node.files.utils > 0 \/ node.files.hooks > 0
    /\ Len(node.subs) = 0
    /\ FileTotal(node.files) > 5

RECURSIVE analyzeFolderStructure_FlatDepth(_, _, _)
analyzeFolderStructure_FlatDepth(node, path, depth) ==
    IF ~node.readable THEN <<>>
    ELSE IF DirIncludesMarker(path) THEN <<>>
    ELSE (IF path # <<>>
            THEN <<[path |-> path, depth |-> depth,
                    fileCount |-> FileTotal(node.files),
                    mixedContent |-> MixedContent(node)]>>
          ELSE <<>>)
         \o Flatten([k \in 1..Len(node.subs) |->
                analyzeFolderStructure_FlatDepth(node.subs[k],
                    Append(path, node.subs[k].name), IF depth >= 1 THEN depth ELSE 1)])

RECURSIVE analyzeFolderStructure(_, _, _)
analyzeFolderStructure(node, path, depth) ==
    IF ~node.readable THEN <<>>
    ELSE IF DirIncludesMarker(path) THEN <<>>
    ELSE (IF path # <<>>
            THEN <<[path |-> path, depth |-> depth,
                    fileCount |-> FileTotal(node.files),
                    mixedContent |-> MixedContent(node)]>>
          ELSE <<>>)
         \o Flatten([k \in 1..Len(node.subs) |->
                analyzeFolderStructure(node.subs[k],
                    Append(path, node.subs[k].name), depth + 1)])

(* Structure, lines 1112-1218.  out.tree is the directory tree under       *)
(* apps/web/src.  out.features: listed = FALSE when the features folder    *)
(* cannot be read, else dirs, one entry per feature directory: the number  *)
(* of .tsx files of its components folder, -1 when it has none; failsAt is *)
(* the index of the feature whose readdir throws, 0 when none does; the    *)
(* listing is given independently of the tree.  An issue of a folder       *)
(* carries its file and the numbers its message names.                     *)
StructureIssue(t, r, path, shown) ==
    [type |-> t, rule |-> r, file |-> <<"apps", "web", "src">> \o path,
     shown |-> shown]

FolderIssues_DepthOnly(folder) ==
    IF folder.depth >= FOLDER_DEPTH_ERROR
      THEN <<StructureIssue("error", "structure/deep-nesting", folder.path,
                            <<folder.depth, FOLDER_DEPTH_ERROR>>)>>
    ELSE IF folder.depth >= FOLDER_DEPTH_WARNING
      THEN <<StructureIssue("warning", "structure/deep-nesting", folder.path,
                            <<folder.depth>>)>>
    ELSE (IF folder.fileCount >= FILES_PER_FOLDER_ERROR
            THEN <<StructureIssue("error", "structure/crowded-folder", folder.path,
                                  <<folder.fileCount, FILES_PER_FOLDER_ERROR>>)>>
          ELSE IF folder.fileCount >= FILES_PER_FOLDER_WARNING
            THEN <<StructureIssue("warning", "structure/crowded-folder", folder.path,
                                  <<folder.fileCount>>)>>
          ELSE <<>>)
         \o If(folder.mixedContent,
               StructureIssue("info", "structure/mixed-content", folder.path, <<>>))

FolderIssues(folder) ==
    (IF folder.depth >= FOLDER_DEPTH_ERROR
       THEN <<StructureIssue("error", "structure/deep-nesting", folder.path,
                             <<folder.depth, FOLDER_DEPTH_ERROR>>)>>
     ELSE IF folder.depth >= FOLDER_DEPTH_WARNING
       THEN <<StructureIssue("warning", "structure/deep-nesting", folder.path,
                             <<folder.depth>>)>>
     ELSE <<>>)
    \o (IF folder.fileCount >= FILES_PER_FOLDER_ERROR
          THEN <<StructureIssue("error", "structure/crowded-folder", folder.path,
                                <<folder.fileCount, FILES_PER_FOLDER_ERROR>>)>>
        ELSE IF folder.fileCount >= FILES_PER_FOLDER_WARNING
          THEN <<StructureIssue("warning", "structure/crowded-folder", folder.path,
                                <<folder.fileCount>>)>>
        ELSE <<>>)
    \o If(folder.mixedContent,
          StructureIssue("info", "structure/mixed-content", folder.path, <<>>))

FEATURE_COMPONENTS_MAX == 20

FeatureIssues(tsxCount) ==
    If(tsxCount > FEATURE_COMPONENTS_MAX, Issue("warning", "structure/feature-organization"))

\* const webSrcPath = ...; analyzeFolderStructure(webSrcPath, webSrcPath)
FoldersOf(out) == analyzeFolderStructure(out.tree, <<>>, 0)

checkStructure(out) ==
    LET ft == out.features
        caught == ~ft.listed \/ ft.failsAt > 0
        visited == IF ~ft.listed THEN <<>>
                   ELSE IF ft.failsAt > 0 THEN SubSeq(ft.dirs, 1, ft.failsAt - 1)
                   ELSE ft.dirs
        issues == Flatten(MapSeq(FoldersOf(out), FolderIssues))
                    \o Flatten(MapSeq(visited, FeatureIssues))
    IN  Outcome("Structure Analysis", StatusOf(issues, 3), issues, "counts", {}, caught)

----------------------------------------------------------------------------
(* Tool outputs *)
JsonOut(j, items, text) == [json |-> j, items |-> items, text |-> text]

JsonOutputs(shapes, structured, findings, markers) ==
    {o \in [json : shapes, items : SeqsUpTo(findings \cup {"throw"}, MaxItems),
            text : SeqsUpTo(markers \cup {"plain"}, MaxText)] :
        o.json \notin structured => o.items = <<>>}

\* a diagnostic of severity "error" puts the word error into stdout
OxlintOutputs ==
    {o \in JsonOutputs({"invalid", "null", "diagnostics", "array", "object"},
                       {"diagnostics", "array"}, {"error", "warning"},
                       {"error", "warning"}) :
        (\E k \in 1..Len(o.items) : o.items[k] = "error")
            => (\E k \in 1..Len(o.text) : o.text[k] = "error")}

EslintOutputs ==
    JsonOutputs({"invalid", "null", "array", "results", "object"},
                {"array", "results"}, {"error", "warning"}, {"error", "warning"})

KnipOutputs ==
    JsonOutputs({"invalid", "null", "object"}, {"object"}, KnipKinds, {"unused"})

\* the lines of the given kinds, line k naming span k
WithSpans(kinds) == [k \in 1..Len(kinds) |-> JLine(kinds[k], k, FALSE)]

\* n well-formed blocks for different file pairs, each preceded by a log
\* line or a blank line when sep says so, coloured when ansi says so
RECURSIVE CloneBlocksFrom(_, _, _, _)
CloneBlocksFrom(j, n, sep, ansi) ==
    IF j > n THEN <<>>
    ELSE (IF sep = "none" THEN <<>> ELSE <<JLine(sep, 0, ansi)>>)
         \o <<JLine("clone", 0, ansi), JLine("file1", 2 * j - 1, ansi),
              JLine("file2", 2 * j, ansi)>>
         \o CloneBlocksFrom(j + 1, n, sep, ansi)

CloneBlocks(n, sep, ansi) == CloneBlocksFrom(1, n, sep, ansi)

JscpdOutputs ==
    [text : {WithSpans(kinds) : kinds \in SeqsUpTo(JscpdLineKinds, MaxJscpdLines)}
              \cup {CloneBlocks(n, sep, ansi) :
                      n \in 0..MaxBlocks, sep \in {"none", "log", "blank"},
                      ansi \in BOOLEAN},
     stats : BOOLEAN]

MadgeOutputs ==
    [orphans : SeqsUpTo({"orphan", "config", "noise"}, MaxText),
     circular : SeqsUpTo({"cycle", "noise"}, MaxText)]

TscOutputs == [text : SeqsUpTo({"tsError", "looseError", "plain"}, MaxText)]

Hooks(st, ef, me, cb, rf, cu) ==
    [useState |-> st, useEffect |-> ef, useMemo |-> me, useCallback |-> cb,
     useRef |-> rf, custom |-> cu]

HookSamples ==
    {Hooks(0, 0, 0, 0, 0, 0), Hooks(5, 0, 0, 0, 0, 0), Hooks(2, 1, 1, 1, 1, 0),
     Hooks(3, 4, 0, 0, 2, 1), Hooks(0, 0, 3, 3, 0, 0), Hooks(1, 3, 2, 3, 0, 0)}

PatternSamples ==
    {[inlineErrorBoundary |-> FALSE, multipleComponents |-> FALSE,
      longFunctions |-> <<>>, mixedConcerns |-> FALSE],
     [inlineErrorBoundary |-> TRUE, multipleComponents |-> TRUE,
      longFunctions |-> <<"a (81 lines)">>, mixedConcerns |-> TRUE],
     [inlineErrorBoundary |-> FALSE, multipleComponents |-> FALSE,
      longFunctions |-> <<"a (81 lines)", "b (90 lines)", "c (99 lines)",
                          "d (120 lines)">>,
      mixedConcerns |-> FALSE]}

LineSamples == {10, 299, 300, 301, 499, 500, 501, 600}

Unreadable == [readable |-> FALSE]

SampleFiles ==
    [readable : {TRUE}, tsx : BOOLEAN, lines : LineSamples, hooks : HookSamples,
     patterns : PatternSamples] \cup {Unreadable}

ComplexityOutputs == [files : {Repeat(f, n) : f \in SampleFiles, n \in 0..MaxFiles}]

ArchitectureOutputs ==
    {[config |-> c, json |-> o.json, items |-> o.items, text |-> o.text] :
        c \in BOOLEAN,
        o \in JsonOutputs({"invalid", "null", "summary", "object"}, {"summary"},
                          {"error", "warn", "info"}, {"error", "violation"})}

MaxDepth == 8       \* deepest folder of a sampled tree

NoFiles == Files(0, 0, 0, 0)

FileSamples ==
    {NoFiles, Files(0, 0, 0, 14), Files(0, 0, 0, 15), Files(0, 0, 0, 24),
     Files(0, 0, 0, 25), Files(0, 0, 0, 30), Files(3, 0, 1, 2), Files(3, 1, 0, 1),
     Files(10, 3, 2, 0)}

\* a chain of d nested directories under the name top; the innermost is
\* leaf, the second one is named second and readable as given
RECURSIVE Nest(_, _, _, _, _, _)
Nest(d, level, top, second, secondReadable, leaf) ==
    IF level = d THEN [leaf EXCEPT !.name = IF level = 1 THEN top ELSE @]
    ELSE Dir(IF level = 1 THEN top ELSE IF level = 2 THEN second ELSE "n",
             level # 2 \/ secondReadable, NoFiles,
             <<Nest(d, level + 1, top, second, secondReadable, leaf)>>)

Branches ==
    {Nest(d, 1, top, mid[1], mid[2], Dir("leaf", r, f, <<>>)) :
        d \in {1, 4, 5, 6, 7, MaxDepth},
        top \in {"a", "node_modules", ".github"},
        mid \in {<<"m", TRUE>>, <<"m", FALSE>>, <<"_generated", TRUE>>},
        r \in BOOLEAN, f \in FileSamples}

SideBranches ==
    {Dir("b", TRUE, Files(0, 0, 0, 30), <<>>),
     Dir("b", TRUE, Files(3, 0, 1, 2), <<Dir("c", TRUE, Files(0, 0, 0, 15), <<>>)>>),
     Dir(".git", TRUE, Files(0, 0, 0, 30), <<>>)}

Root(subs) == Dir("src", TRUE, Files(0, 0, 0, 30), subs)

Trees ==
    {Root(<<>>), Dir("src", FALSE, NoFiles, <<>>)}
    \cup {Root(<<b>>) : b \in Branches}
    \cup {Root(<<b, c>>) : b \in Branches, c \in SideBranches}

SmallTrees == {Root(<<>>)} \cup {Root(<<c>>) : c \in SideBranches}

FeatureListings ==
    {[listed |-> FALSE, dirs |-> <<>>, failsAt |-> 0]}
    \cup {[listed |-> TRUE, dirs |-> d, failsAt |-> k] :
            d \in SeqsUpTo({-1, 20, 21}, 2), k \in 0..2}

StructureOutputs ==
    {o \in [tree : SmallTrees, features : FeatureListings] :
        o.features.failsAt <= Len(o.features.dirs)}
    \cup [tree : Trees, features : {[listed |-> FALSE, dirs |-> <<>>, failsAt |-> 0]}]

----------------------------------------------------------------------------
(* Aggregation and grade *)

\* main, lines 1501-1514: the nested loop over checks and their issues
RECURSIVE CountIssues(_, _)
CountIssues(issues, acc) ==
    IF issues = <<>> THEN acc
    ELSE LET x == Head(issues)
             next == IF x.type = "error"
                       THEN [acc EXCEPT !.errors = @ + 1]
                     ELSE IF x.type = "warning"
                       THEN [acc EXCEPT !.warnings = @ + 1]
                     ELSE [acc EXCEPT !.info = @ + 1]
         IN  CountIssues(Tail(issues), next)

RECURSIVE CalcTotals_SkipsSkipped(_, _)
CalcTotals_SkipsSkipped(cs, acc) ==
    IF cs = <<>> THEN acc
    ELSE CalcTotals_SkipsSkipped(Tail(cs),
             IF Head(cs).status = "skip" THEN acc
             ELSE CountIssues(Head(cs).issues, acc))

RECURSIVE CalcTotals(_, _)
CalcTotals(cs, acc) ==
    IF cs = <<>> THEN acc
    ELSE CalcTotals(Tail(cs), CountIssues(Head(cs).issues, acc))

ZeroTotals == [errors |-> 0, warnings |-> 0, info |-> 0]

calculateGrade_WrongCompare(t) ==
    IF t.errors = 0 /\ t.warnings = 0 THEN "A"
    ELSE IF t.errors = 0 /\ t.warnings >= 5 THEN "B"
    ELSE IF t.errors <= 2 /\ t.warnings <= 15 THEN "C"
    ELSE IF t.errors <= 5 THEN "D"
    ELSE "F"

calculateGrade(t) ==
    IF t.errors = 0 /\ t.warnings = 0 THEN "A"
    ELSE IF t.errors = 0 /\ t.warnings <= 5 THEN "B"
    ELSE IF t.errors <= 2 /\ t.warnings <= 15 THEN "C"
    ELSE IF t.errors <= 5 THEN "D"
    ELSE "F"

----------------------------------------------------------------------------
(* generateMarkdownReport, lines 1277-1470: the priority action list       *)
(* (lines 1373-1464).  An item is its number, its category and the count   *)
(* its headline names; the "no critical issues" line has number 0.         *)

\* name.includes(sub) for the names of the nine checks
NameIncludes(name, sub) ==
    CASE sub = "knip" -> name = "Dead Code (knip)"
      [] sub = "jscpd" -> name = "Duplicate Code (jscpd)"
      [] sub = "madge" -> name = "Dependency Graph (madge)"
      [] sub = "Complexity" ->
            name \in {"Import & Complexity (ESLint)", "Complexity Analysis"}
      [] sub = "Architecture" -> name = "Architecture Boundaries"
      [] sub = "Structure" -> name = "Structure Analysis"

\* report.checks.find(c => c.name.includes(sub)): <<c>> for the first such
\* check, <<>> for undefined
RECURSIVE Find(_, _)
Find(cs, sub) ==
    IF cs = <<>> THEN <<>>
    ELSE IF NameIncludes(Head(cs).name, sub) THEN <<Head(cs)>>
    ELSE Find(Tail(cs), sub)

\* check ? check.issues : nothing
IssuesOf(found) == IF found = <<>> THEN <<>> ELSE found[1].issues

CountRule(issues, r) == Len(SelectSeq(issues, LAMBDA x : x.rule = r))

CountRuleType(issues, r, t) ==
    Len(SelectSeq(issues, LAMBDA x : x.rule = r /\ x.type = t))

\* the conditional pushes in source order, each with the count it tests
Candidates(cs) ==
    LET deadCode == IssuesOf(Find(cs, "knip"))
        duplicate == IssuesOf(Find(cs, "jscpd"))
        orphan == IssuesOf(Find(cs, "madge"))
        complexity == IssuesOf(Find(cs, "Complexity"))
        architecture == IssuesOf(Find(cs, "Architecture"))
        structure == IssuesOf(Find(cs, "Structure"))
        unusedExports == CountRule(deadCode, "knip/unused-export")
        circular == CountRule(orphan, "madge/circular")
    IN  << [item |-> "largeFiles",
            count |-> CountRuleType(complexity, "complexity/file-size", "error"),
            emit |-> CountRuleType(complexity, "complexity/file-size", "error") > 0],
           [item |-> "complexComponents",
            count |-> CountRuleType(complexity, "complexity/too-many-hooks", "error"),
            emit |-> CountRuleType(complexity, "complexity/too-many-hooks", "error") > 0],
           [item |-> "crowdedFolders",
            count |-> CountRule(structure, "structure/crowded-folder"),
            emit |-> CountRule(structure, "structure/crowded-folder") > 0],
           [item |-> "violations",
            count |-> CountType(architecture, "error"),
            emit |-> CountType(architecture, "error") > 0],
           [item |-> "dupes",
            count |-> CountType(duplicate, "warning"),
            emit |-> CountType(duplicate, "warning") > 0],
           [item |-> "unusedFiles",
            count |-> CountRule(deadCode, "knip/unused-file"),
            emit |-> CountRule(deadCode, "knip/unused-file") > 0],
           [item |-> "unusedExports",
            count |-> unusedExports,
            emit |-> unusedExports > 10],
           [item |-> "circular",
            count |-> circular,
            emit |-> circular > 0] >>

\* lines.push(`${priority++}. ...`) for each candidate that is emitted
RECURSIVE Numbered_Restarts(_, _)
Numbered_Restarts(cands, priority) ==
    IF cands = <<>> THEN <<>>
    ELSE IF Head(cands).emit
      THEN <<[n |-> priority, item |-> Head(cands).item, count |-> Head(cands).count]>>
             \o Numbered_Restarts(Tail(cands), IF priority >= 2 THEN 1 ELSE priority + 1)
    ELSE Numbered_Restarts(Tail(cands), priority)

RECURSIVE Numbered(_, _)
Numbered(cands, priority) ==
    IF cands = <<>> THEN <<>>
    ELSE IF Head(cands).emit
      THEN <<[n |-> priority, item |-> Head(cands).item, count |-> Head(cands).count]>>
             \o Numbered(Tail(cands), priority + 1)
    ELSE Numbered(Tail(cands), priority)

NoCriticalIssues == [n |-> 0, item |-> "noCriticalIssues", count |-> 0]

generateMarkdownReport(cs) ==
    LET items == Numbered(Candidates(cs), 1)
        priority == 1 + Len(items)
    IN  IF priority = 1 THEN <<NoCriticalIssues>> ELSE items

----------------------------------------------------------------------------
(* Grading runs: a report whose totals grow one issue at a time *)

IdlePipe ==
    /\ isQuick = FALSE /\ configFound = FALSE /\ checks = <<>> /\ exitCode = -1
    /\ spawned = {} /\ written = {} /\ caughtIn = {} /\ failure = "none"
    /\ actionItems = <<>>
IdleCk == ckResult = "none" /\ ckInput = "none" /\ folders = <<>>
IdleCompact ==
    /\ issueA = "none" /\ issueB = "none"
    /\ compactA = "none" /\ compactB = "none"
IdleAf == source = <<>> /\ content = <<>> /\ analysis = "none"
IdleLf ==
    /\ lines = <<>> /\ decls = <<>> /\ i = 0
    /\ currentFunction = "" /\ functionStartLine = 0 /\ braceDepth = 0
    /\ inFunction = FALSE /\ longFunctions = <<>>

InitGrade ==
    /\ pc = "grading"
    /\ totals = ZeroTotals
    /\ grade = calculateGrade(totals)
    /\ IdlePipe /\ IdleCk /\ IdleCompact /\ IdleLf /\ IdleAf

Regrade(t) ==
    /\ totals' = t
    /\ grade' = calculateGrade(t)
    /\ UNCHANGED <<isQuick, configFound, pc, checks, exitCode, spawned, written, caughtIn, failure>>
    /\ UNCHANGED <<ckVars, compactVars, lfVars, mdVars, afVars>>

AddError ==
    /\ pc = "grading" /\ totals.errors < MaxErrors
    /\ Regrade([totals EXCEPT !.errors = @ + 1])

AddWarning ==
    /\ pc = "grading" /\ totals.warnings < MaxWarnings
    /\ Regrade([totals EXCEPT !.warnings = @ + 1])

AddInfo ==
    /\ pc = "grading" /\ totals.info < MaxInfo
    /\ Regrade([totals EXCEPT !.info = @ + 1])

NextGrade == AddError \/ AddWarning \/ AddInfo

SpecGrade == InitGrade /\ [][NextGrade]_vars

----------------------------------------------------------------------------
(* main(), lines 1476-1556 *)

OxlintRuns ==
    {JsonOut("diagnostics", <<>>, <<"plain">>),
     JsonOut("diagnostics", <<"error">>, <<"error">>),
     JsonOut("invalid", <<>>, <<"warning">>)}

EslintRuns ==
    {JsonOut("array", <<>>, <<"plain">>),
     JsonOut("results", <<"warning", "throw">>, <<"plain">>)}

KnipRuns ==
    {JsonOut("object", <<>>, <<"plain">>),
     JsonOut("object", <<"file", "export">>, <<"plain">>),
     JsonOut("object", <<"file">> \o Repeat("export", 11), <<"plain">>),
     JsonOut("invalid", <<>>, <<>>)}

JscpdRuns ==
    {[text |-> WithSpans(<<"log">>), stats |-> FALSE],
     [text |-> CloneBlocks(1, "log", TRUE), stats |-> TRUE]}

MadgeRuns ==
    {[orphans |-> <<"noise">>, circular |-> <<"noise">>],
     [orphans |-> <<"orphan", "config">>, circular |-> <<>>],
     [orphans |-> <<>>, circular |-> <<"cycle">>]}

TscRuns == {[text |-> <<>>], [text |-> <<"plain", "tsError">>]}

ComplexityRuns ==
    {[files |-> <<>>],
     [files |-> <<Unreadable,
                  [readable |-> TRUE, tsx |-> FALSE, lines |-> 600,
                   hooks |-> Hooks(0, 0, 0, 0, 0, 0),
                   patterns |-> [inlineErrorBoundary |-> FALSE,
                                 multipleComponents |-> FALSE,
                                 longFunctions |-> <<>>, mixedConcerns |-> FALSE]]>>],
     [files |-> <<[readable |-> TRUE, tsx |-> TRUE, lines |-> 301,
                   hooks |-> Hooks(0, 0, 3, 3, 0, 0),
                   patterns |-> [inlineErrorBoundary |-> FALSE,
                                 multipleComponents |-> FALSE,
                                 longFunctions |-> <<>>, mixedConcerns |-> FALSE]]>>]}

ArchitectureRuns ==
    {[config |-> FALSE, json |-> "invalid", items |-> <<>>, text |-> <<>>],
     [config |-> TRUE, json |-> "summary", items |-> <<>>, text |-> <<"plain">>],
     [config |-> TRUE, json |-> "summary", items |-> <<"error", "warn">>,
      text |-> <<"error">>],
     [config |-> TRUE, json |-> "invalid", items |-> <<>>, text |-> <<"violation">>]}

StructureRuns ==
    {[tree |-> Root(<<>>),
      features |-> [listed |-> FALSE, dirs |-> <<>>, failsAt |-> 0]],
     [tree |-> Root(<<Dir("a", TRUE, Files(0, 0, 0, 30), <<>>)>>),
      features |-> [listed |-> TRUE, dirs |-> <<-1, 21>>, failsAt |-> 0]],
     [tree |-> Root(<<Nest(5, 1, "a", "m", TRUE, Dir("leaf", TRUE, Files(3, 0, 1, 2), <<>>))>>),
      features |-> [listed |-> TRUE, dirs |-> <<20>>, failsAt |-> 1]]}

Init ==
    /\ isQuick \in BOOLEAN
    /\ configFound \in BOOLEAN
    /\ pc = "mkdir"
    /\ checks = <<>>
    /\ totals = ZeroTotals
    /\ grade = "A"
    /\ exitCode = -1
    /\ spawned = {} /\ written = {} /\ caughtIn = {} /\ failure = "none"
    /\ actionItems = <<>>
    /\ IdleCk /\ IdleCompact /\ IdleLf /\ IdleAf

\* main().catch(console.error), line 1556: the rejection is logged and the
\* process ends with status 0
MainRejects(why) ==
    /\ pc' = "done"
    /\ exitCode' = 0
    /\ failure' = why

\* await mkdir(LOG_DIR, {recursive: true}), line 1486
Mkdir ==
    /\ pc = "mkdir"
    /\ pc' = "oxlint"
    /\ UNCHANGED <<isQuick, configFound, checks, totals, grade, exitCode, spawned, written,
                   caughtIn, failure>>
    /\ UNCHANGED <<ckVars, compactVars, lfVars, mdVars, afVars>>

MkdirFails ==
    /\ pc = "mkdir"
    /\ MainRejects("mkdir")
    /\ UNCHANGED <<isQuick, configFound, checks, totals, grade, spawned, written, caughtIn>>
    /\ UNCHANGED <<ckVars, compactVars, lfVars, mdVars, afVars>>

Push_Unshift(o, next) ==
    /\ IF o.result.status = "rejected"
         THEN /\ MainRejects("check")
              /\ spawned' = spawned \cup o.spawned
              /\ UNCHANGED <<checks, caughtIn>>
         ELSE /\ checks' = <<o.result>> \o checks
              /\ spawned' = spawned \cup o.spawned
              /\ caughtIn' = IF o.caught THEN caughtIn \cup {o.result.name}
                             ELSE caughtIn
              /\ pc' = next
              /\ UNCHANGED <<exitCode, failure>>
    /\ UNCHANGED <<isQuick, configFound, totals, grade, written>>
    /\ UNCHANGED <<ckVars, compactVars, lfVars, mdVars, afVars>>

\* checks.push(await check()), lines 1491-1499
Push(o, next) ==
    /\ IF o.result.status = "rejected"
         THEN /\ MainRejects("check")
              /\ spawned' = spawned \cup o.spawned
              /\ UNCHANGED <<checks, caughtIn>>
         ELSE /\ checks' = Append(checks, o.result)
              /\ spawned' = spawned \cup o.spawned
              /\ caughtIn' = IF o.caught THEN caughtIn \cup {o.result.name}
                             ELSE caughtIn
              /\ pc' = next
              /\ UNCHANGED <<exitCode, failure>>
    /\ UNCHANGED <<isQuick, configFound, totals, grade, written>>
    /\ UNCHANGED <<ckVars, compactVars, lfVars, mdVars, afVars>>

RunOxlint == pc = "oxlint" /\ \E out \in OxlintRuns : Push(checkOxlint(out), "eslint")
RunEslint == pc = "eslint" /\ \E out \in EslintRuns : Push(checkEslint(out), "knip")
RunKnip == pc = "knip" /\ \E out \in KnipRuns : Push(checkKnip(out), "jscpd")
RunJscpd ==
    pc = "jscpd" /\ \E out \in JscpdRuns : Push(checkJscpd(isQuick, out), "madge")
RunMadge ==
    pc = "madge" /\ \E out \in MadgeRuns : Push(checkMadge(isQuick, out), "tsc")
RunTypeScript ==
    pc = "tsc" /\ \E out \in TscRuns : Push(checkTypeScript(out), "complexity")
RunComplexity ==
    pc = "complexity"
    /\ \E out \in ComplexityRuns : Push(checkComplexity(out), "architecture")
RunArchitecture ==
    pc = "architecture"
    /\ \E out \in ArchitectureRuns :
          /\ out.config = configFound
          /\ Push(checkArchitecture(isQuick, out), "structure")
RunStructure ==
    pc = "structure" /\ \E out \in StructureRuns : Push(checkStructure(out), "totals")

\* lines 1501-1514
ComputeTotals ==
    /\ pc = "totals"
    /\ totals' = CalcTotals(checks, ZeroTotals)
    /\ pc' = "grade"
    /\ UNCHANGED <<isQuick, configFound, checks, grade, exitCode, spawned, written, caughtIn,
                   failure>>
    /\ UNCHANGED <<ckVars, compactVars, lfVars, mdVars, afVars>>

\* lines 1516-1524
ComputeGrade ==
    /\ pc = "grade"
    /\ grade' = calculateGrade(totals)
    /\ pc' = "render"
    /\ UNCHANGED <<isQuick, configFound, checks, totals, exitCode, spawned, written, caughtIn,
                   failure>>
    /\ UNCHANGED <<ckVars, compactVars, lfVars, mdVars, afVars>>

\* const markdown = generateMarkdownReport(report), line 1527
GenerateMarkdown ==
    /\ pc = "render"
    /\ actionItems' = generateMarkdownReport(checks)
    /\ pc' = "writeMd"
    /\ UNCHANGED <<isQuick, configFound, checks, totals, grade, exitCode, spawned, written,
                   caughtIn, failure>>
    /\ UNCHANGED <<ckVars, compactVars, lfVars, afVars>>

\* await writeFile(REPORT_FILE, markdown), line 1529
WriteMarkdown ==
    /\ pc = "writeMd"
    /\ written' = written \cup {"md"}
    /\ pc' = "writeJson"
    /\ UNCHANGED <<isQuick, configFound, checks, totals, grade, exitCode, spawned, caughtIn,
                   failure>>
    /\ UNCHANGED <<ckVars, compactVars, lfVars, mdVars, afVars>>

\* await writeFile(JSON_FILE, ...), line 1530
WriteJson ==
    /\ pc = "writeJson"
    /\ written' = written \cup {"json"}
    /\ pc' = "exit"
    /\ UNCHANGED <<isQuick, configFound, checks, totals, grade, exitCode, spawned, caughtIn,
                   failure>>
    /\ UNCHANGED <<ckVars, compactVars, lfVars, mdVars, afVars>>

\* either writeFile rejects
WriteFails ==
    /\ pc \in {"writeMd", "writeJson"}
    /\ MainRejects("writeFile")
    /\ UNCHANGED <<isQuick, configFound, checks, totals, grade, spawned, written, caughtIn>>
    /\ UNCHANGED <<ckVars, compactVars, lfVars, mdVars, afVars>>

ExitStatus_CountsWarnings(t) == IF t.errors + t.warnings > 0 THEN 1 ELSE 0

ExitStatus(t) == IF t.errors > 0 THEN 1 ELSE 0

\* process.exit(totals.errors > 0 ? 1 : 0), line 1553
Exit ==
    /\ pc = "exit"
    /\ exitCode' = ExitStatus(totals)
    /\ pc' = "done"
    /\ UNCHANGED <<isQuick, configFound, checks, totals, grade, spawned, written, caughtIn,
                   failure>>
    /\ UNCHANGED <<ckVars, compactVars, lfVars, mdVars, afVars>>

Next ==
    \/ Mkdir \/ MkdirFails
    \/ RunOxlint \/ RunEslint \/ RunKnip \/ RunJscpd \/ RunMadge
    \/ RunTypeScript \/ RunComplexity \/ RunArchitecture \/ RunStructure
    \/ ComputeTotals \/ ComputeGrade \/ GenerateMarkdown
    \/ WriteMarkdown \/ WriteJson \/ WriteFails
    \/ Exit

Spec == Init /\ [][Next]_vars

----------------------------------------------------------------------------
(* One check on one tool output *)

InitCheck ==
    /\ isQuick \in BOOLEAN
    /\ configFound \in BOOLEAN
    /\ pc = "check"
    /\ checks = <<>> /\ totals = ZeroTotals /\ grade = "A" /\ exitCode = -1
    /\ spawned = {} /\ written = {} /\ caughtIn = {} /\ failure = "none"
    /\ actionItems = <<>>
    /\ IdleCk /\ IdleCompact /\ IdleLf /\ IdleAf

Checked(name, out, o) ==
    /\ pc' = "checked"
    /\ ckInput' = [check |-> name, out |-> out]
    /\ ckResult' = o
    /\ folders' = IF name = "structure" THEN FoldersOf(out) ELSE <<>>
    /\ UNCHANGED <<isQuick, configFound, checks, totals, grade, exitCode, spawned, written,
                   caughtIn, failure>>
    /\ UNCHANGED <<compactVars, lfVars, mdVars, afVars>>

CkOxlint ==
    pc = "check" /\ \E out \in OxlintOutputs : Checked("oxlint", out, checkOxlint(out))
CkEslint ==
    pc = "check" /\ \E out \in EslintOutputs : Checked("eslint", out, checkEslint(out))
CkKnip ==
    pc = "check" /\ \E out \in KnipOutputs : Checked("knip", out, checkKnip(out))
CkJscpd ==
    pc = "check"
    /\ \E out \in JscpdOutputs : Checked("jscpd", out, checkJscpd(isQuick, out))
CkMadge ==
    pc = "check"
    /\ \E out \in MadgeOutputs : Checked("madge", out, checkMadge(isQuick, out))
CkTypeScript ==
    pc = "check" /\ \E out \in TscOutputs : Checked("tsc", out, checkTypeScript(out))
CkComplexity ==
    pc = "check"
    /\ \E out \in ComplexityOutputs : Checked("complexity", out, checkComplexity(out))
CkArchitecture ==
    pc = "check"
    /\ \E out \in ArchitectureOutputs :
          /\ out.config = configFound
          /\ Checked("architecture", out, checkArchitecture(isQuick, out))
CkStructure ==
    pc = "check"
    /\ \E out \in StructureOutputs : Checked("structure", out, checkStructure(out))

NextCheck ==
    \/ CkOxlint \/ CkEslint \/ CkKnip \/ CkJscpd \/ CkMadge
    \/ CkTypeScript \/ CkComplexity \/ CkArchitecture \/ CkStructure

SpecCheck == InitCheck /\ [][NextCheck]_vars

----------------------------------------------------------------------------
GradeRank(g) ==
    CASE g = "A" -> 4 [] g = "B" -> 3 [] g = "C" -> 2 [] g = "D" -> 1
      [] g = "F" -> 0

GradeTable ==
    LET e == totals.errors
        w == totals.warnings
        isA == e = 0 /\ w = 0
        isB == ~isA /\ e = 0 /\ w <= 5
        isC == ~isA /\ ~isB /\ e <= 2 /\ w <= 15
        isD == ~isA /\ ~isB /\ ~isC /\ e <= 5
    IN  /\ (grade = "A") <=> isA
        /\ (grade = "B") <=> isB
        /\ (grade = "C") <=> isC
        /\ (grade = "D") <=> isD
        /\ (grade = "F") <=> (~isA /\ ~isB /\ ~isC /\ ~isD)
        /\ e > 5 => grade = "F"

\* C2: the grade is A if errors=0 and warnings=0; else B if errors=0 and
\* warnings<=5; else C if errors<=2 and warnings<=15; else D if errors<=5;
\* else F.  More than 5 errors is always F, and a step that changes only
\* the info count leaves the grade as it was.
C2_GradeFirstMatch ==
    /\ [](pc = "grading" => GradeTable)
    /\ [][(totals'.errors = totals.errors /\ totals'.warnings = totals.warnings)
            => grade' = grade]_vars

C2_Witness ==
    /\ pc = "grading" /\ totals.errors = 6 /\ totals.warnings = 0
    /\ totals.info = 1 /\ grade = "F"

\* C3: every (e, w) that is componentwise at most the current totals has a
\* grade at least as good as the current grade, and adding an issue never
\* improves the grade.
C3_GradeMonotone ==
    /\ [](pc = "grading" =>
            \A e \in 0..totals.errors, w \in 0..totals.warnings :
                GradeRank(calculateGrade([errors |-> e, warnings |-> w, info |-> 0]))
                    >= GradeRank(grade))
    /\ [][GradeRank(grade') <= GradeRank(grade)]_vars

C3_Witness ==
    /\ pc = "grading" /\ totals.errors = 3 /\ totals.warnings = 16
    /\ grade = "D"

----------------------------------------------------------------------------
(* compactIssue, lines 1243-1249.  A string is a sequence of characters;   *)
(* an optional field is <<>> when absent and <<v>> when present.  The      *)
(* issues here carry the five fields compactIssue reads.                   *)
None == <<>>
Some(v) == <<v>>

\* JavaScript truthiness of an optional string (undefined and "" are falsy)
\* and of an optional number (undefined and 0 are falsy)
TruthyString(opt) == opt # None /\ Len(opt[1]) > 0
TruthyNumber(opt) == opt # None /\ opt[1] # 0

DigitChar(n) ==
    CASE n = 0 -> "0" [] n = 1 -> "1" [] n = 2 -> "2" [] n = 3 -> "3"
      [] n = 4 -> "4" [] n = 5 -> "5" [] n = 6 -> "6" [] n = 7 -> "7"
      [] n = 8 -> "8" [] n = 9 -> "9"

\* `${issue.line}`: the decimal digits of a number
RECURSIVE Digits(_)
Digits(n) == IF n < 10 THEN <<DigitChar(n)>> ELSE Digits(n \div 10) \o <<DigitChar(n % 10)>>

compactIssue(issue) ==
    LET t == IF issue.type = "error" THEN "E"
             ELSE IF issue.type = "warning" THEN "W" ELSE "I"
        loc == IF TruthyString(issue.file)
                 THEN issue.file[1]
                        \o (IF TruthyNumber(issue.line)
                              THEN <<":">> \o Digits(issue.line[1]) ELSE <<>>)
               ELSE <<>>
        r == IF TruthyString(issue.rule) THEN issue.rule[1] ELSE <<>>
    IN  <<t, "|">> \o loc \o <<"|">> \o issue.message \o <<"|">> \o r

FullIssues ==
    [type : {"error", "warning", "info"},
     file : {None, Some(<<"a">>), Some(<<"a", ":", "7">>)},
     line : {None, Some(7), Some(12)},
     message : {<<"m">>, <<"m", "|", "r">>},
     rule : {None, Some(<<"r">>)}]

InitCompact ==
    /\ pc = "compact"
    /\ issueA \in FullIssues /\ issueB \in FullIssues
    /\ compactA = "none" /\ compactB = "none"
    /\ totals = ZeroTotals /\ grade = "A"
    /\ IdlePipe /\ IdleCk /\ IdleLf /\ IdleAf

\* c.issues.map(compactIssue), line 1259, on the two issues
Compact ==
    /\ pc = "compact"
    /\ compactA' = compactIssue(issueA)
    /\ compactB' = compactIssue(issueB)
    /\ pc' = "compacted"
    /\ UNCHANGED <<issueA, issueB>>
    /\ UNCHANGED <<isQuick, configFound, checks, totals, grade, exitCode, spawned, written,
                   caughtIn, failure>>
    /\ UNCHANGED <<ckVars, lfVars, mdVars, afVars>>

NextCompact == Compact

SpecCompact == InitCompact /\ [][NextCompact]_vars

----------------------------------------------------------------------------
(* detectLongFunctions, lines 723-760.  A line is the name the function    *)
(* pattern captures in it ("" when it does not match) and its numbers of   *)
(* "{" and "}".  The text is built from declarations:                      *)
(*   "oneLine"   function f() { ... }                   on one line        *)
(*   "block"     function f() {, body lines, }                             *)
(*   "nested"    as block, with a three-line inner function first          *)
(*   "unclosed"  function f() {, body lines, no closing brace              *)
(* and ends with the empty string that follows the last newline.           *)
LONG_FUNCTION_LINES == 80

MaxDecls == 2

BodySamples == {1, 79, 80}

Line(name, opens, closes) == [intro |-> name, opens |-> opens, closes |-> closes]

Filler == Line("", 0, 0)

DeclLines(d) ==
    CASE d.kind = "oneLine" -> <<Line(d.name, 1, 1)>>
      [] d.kind = "block" ->
            <<Line(d.name, 1, 0)>> \o Repeat(Filler, d.body) \o <<Line("", 0, 1)>>
      [] d.kind = "nested" ->
            <<Line(d.name, 1, 0), Line("inner", 1, 0), Filler, Line("", 0, 1)>>
              \o Repeat(Filler, d.body) \o <<Line("", 0, 1)>>
      [] d.kind = "unclosed" ->
            <<Line(d.name, 1, 0)>> \o Repeat(Filler, d.body)

DeclName(k) == CASE k = 1 -> "f" [] k = 2 -> "g" [] k = 3 -> "h" [] OTHER -> "k"

DeclShapes ==
    {[kind |-> "oneLine", body |-> 0]}
    \cup [kind : {"block", "nested", "unclosed"}, body : BodySamples]

Sources ==
    {[k \in 1..Len(sh) |-> [name |-> DeclName(k), kind |-> sh[k].kind,
                            body |-> sh[k].body]] :
        sh \in SeqsUpTo(DeclShapes, MaxDecls)}

SourceLines(ds) == Flatten(MapSeq(ds, DeclLines)) \o <<Filler>>

InitLong ==
    /\ pc = "scan"
    /\ decls \in Sources
    /\ lines = SourceLines(decls)
    /\ i = 0
    /\ currentFunction = "" /\ functionStartLine = 0 /\ braceDepth = 0
    /\ inFunction = FALSE /\ longFunctions = <<>>
    /\ totals = ZeroTotals /\ grade = "A"
    /\ IdlePipe /\ IdleCk /\ IdleCompact /\ IdleAf

ScanLine_ClosesOnStartLine ==
    /\ pc = "scan" /\ i < Len(lines)
    /\ LET line == lines[i + 1]
           enter == line.intro # "" /\ ~inFunction
           name == IF enter THEN line.intro ELSE currentFunction
           start == IF enter THEN i ELSE functionStartLine
           tracking == inFunction \/ enter
           depth == (IF enter THEN 0 ELSE braceDepth) + line.opens - line.closes
           ends == tracking /\ depth <= 0
           functionLength == i - start
       IN  /\ currentFunction' = name
           /\ functionStartLine' = start
           /\ braceDepth' = depth
           /\ inFunction' = (tracking /\ ~ends)
           /\ longFunctions' =
                 IF ends /\ functionLength > LONG_FUNCTION_LINES
                   THEN Append(longFunctions, [name |-> name, length |-> functionLength])
                 ELSE longFunctions
    /\ i' = i + 1
    /\ UNCHANGED <<pc, lines, decls>>
    /\ UNCHANGED <<isQuick, configFound, checks, totals, grade, exitCode, spawned, written,
                   caughtIn, failure>>
    /\ UNCHANGED <<ckVars, compactVars, mdVars, afVars>>

\* one iteration of the for loop, lines 733-757
ScanLine ==
    /\ pc = "scan" /\ i < Len(lines)
    /\ LET line == lines[i + 1]
           enter == line.intro # "" /\ ~inFunction
           name == IF enter THEN line.intro ELSE currentFunction
           start == IF enter THEN i ELSE functionStartLine
           tracking == inFunction \/ enter
           depth == (IF enter THEN 0 ELSE braceDepth) + line.opens - line.closes
           ends == tracking /\ depth <= 0 /\ i > start
           functionLength == i - start
       IN  /\ currentFunction' = name
           /\ functionStartLine' = start
           /\ braceDepth' = depth
           /\ inFunction' = (tracking /\ ~ends)
           /\ longFunctions' =
                 IF ends /\ functionLength > LONG_FUNCTION_LINES
                   THEN Append(longFunctions, [name |-> name, length |-> functionLength])
                 ELSE longFunctions
    /\ i' = i + 1
    /\ UNCHANGED <<pc, lines, decls>>
    /\ UNCHANGED <<isQuick, configFound, checks, totals, grade, exitCode, spawned, written,
                   caughtIn, failure>>
    /\ UNCHANGED <<ckVars, compactVars, mdVars, afVars>>

ScanEnd_Flushes ==
    /\ pc = "scan" /\ i = Len(lines)
    /\ pc' = "scanned"
    /\ longFunctions' =
          IF inFunction /\ i - functionStartLine > LONG_FUNCTION_LINES
            THEN Append(longFunctions,
                        [name |-> currentFunction, length |-> i - functionStartLine])
          ELSE longFunctions
    /\ UNCHANGED <<lines, decls, i, currentFunction, functionStartLine, braceDepth,
                   inFunction>>
    /\ UNCHANGED <<isQuick, configFound, checks, totals, grade, exitCode, spawned, written,
                   caughtIn, failure>>
    /\ UNCHANGED <<ckVars, compactVars, mdVars, afVars>>

\* return longFunctions, line 759
ScanEnd ==
    /\ pc = "scan" /\ i = Len(lines)
    /\ pc' = "scanned"
    /\ UNCHANGED <<lines, decls, i, currentFunction, functionStartLine, braceDepth,
                   inFunction, longFunctions>>
    /\ UNCHANGED <<isQuick, configFound, checks, totals, grade, exitCode, spawned, written,
                   caughtIn, failure>>
    /\ UNCHANGED <<ckVars, compactVars, mdVars, afVars>>

NextLong == ScanLine \/ ScanEnd

SpecLong == InitLong /\ [][NextLong]_vars

----------------------------------------------------------------------------
(* analyzeFile, lines 676-721, and detectMixedConcerns, lines 762-771.      *)
(* content is a sequence of characters.  The analysis carries the line     *)
(* count, the eight hook counts and the mixedConcerns pattern; the class,  *)
(* export and nesting patterns are separate tests of content that nothing  *)
(* here reads.  A file is written from fragments, one per line:            *)
(*   "import"     import { useState } from 'react'   *)
(*   "state"      useState(0)                        *)
(*   "stateTyped" useState<T>(0)                     *)
(*   "effect"     useEffect(f)                       *)
(*   "custom"     useAuth()                          *)
(*   "map"        xs.map(f)                          *)
(*   "mapSpaced"  xs.map (f)                         *)
(*   "filter"     xs.filter(f)                       *)
(*   "if"         if (a) b                           *)
(*   "ifTight"    if(a) b                            *)
(*   "tag"        <div>x</div>                       *)
(*   "compare"    a < b                              *)
(*   "plain"      x = 1                              *)
\* [A-Z]
UpperChars ==
    {"A", "B", "C", "D", "E", "F", "G", "H", "I", "J", "K", "L", "M",
     "N", "O", "P", "Q", "R", "S", "T", "U", "V", "W", "X", "Y", "Z"}

\* [a-zA-Z]
LetterChars ==
    UpperChars \cup
    {"a", "b", "c", "d", "e", "f", "g", "h", "i", "j", "k", "l", "m",
     "n", "o", "p", "q", "r", "s", "t", "u", "v", "w", "x", "y", "z"}

\* \w
WordChars ==
    LetterChars \cup {"0", "1", "2", "3", "4", "5", "6", "7", "8", "9", "_"}

\* \s
SpaceChars == {" ", "\t", "\n"}

\* the literal lit is at position p of t
StartsAt(t, p, lit) ==
    /\ p + Len(lit) - 1 <= Len(t)
    /\ \A k \in 1..Len(lit) : t[p + k - 1] = lit[k]

\* X*: the first position from p on whose character is not in S
RECURSIVE SkipWhile(_, _, _)
SkipWhile(t, p, S) ==
    IF p <= Len(t) /\ t[p] \in S THEN SkipWhile(t, p + 1, S) ELSE p

\* /lit\s*[opens]/ matches at p
CallAt(t, p, lit, opens) ==
    /\ StartsAt(t, p, lit)
    /\ LET q == SkipWhile(t, p + Len(lit), SpaceChars)
       IN  q <= Len(t) /\ t[q] \in opens

\* (content.match(/lit\s*[opens]/g) || []).length: two matches of such a
\* pattern never overlap, so there is one match per position a match
\* starts at
CountCalls(t, lit, opens) ==
    Cardinality({p \in 1..Len(t) : CallAt(t, p, lit, opens)})

\* /\buse[A-Z][a-zA-Z]*\s*\(/ matches at p
GenericHookAt(t, p) ==
    /\ p = 1 \/ t[p - 1] \notin WordChars
    /\ StartsAt(t, p, <<"u", "s", "e">>)
    /\ p + 3 <= Len(t) /\ t[p + 3] \in UpperChars
    /\ LET q == SkipWhile(t, p + 4, LetterChars)
           r == SkipWhile(t, q, SpaceChars)
       IN  r <= Len(t) /\ t[r] = "("

\* the characters of a hook name
HookText(name) ==
    CASE name = "useState" ->
          <<"u", "s", "e", "S", "t", "a", "t", "e">>
      [] name = "useEffect" ->
          <<"u", "s", "e", "E", "f", "f", "e", "c", "t">>
      [] name = "useMemo" ->
          <<"u", "s", "e", "M", "e", "m", "o">>
      [] name = "useCallback" ->
          <<"u", "s", "e", "C", "a", "l", "l", "b", "a", "c", "k">>
      [] name = "useRef" ->
          <<"u", "s", "e", "R", "e", "f">>
      [] name = "useQuery" ->
          <<"u", "s", "e", "Q", "u", "e", "r", "y">>
      [] name = "useMutation" ->
          <<"u", "s", "e", "M", "u", "t", "a", "t", "i", "o", "n">>

\* /useState|useEffect|useMemo|useCallback|useRef|useQuery|useMutation/
NamedHooks ==
    {HookText(name) : name \in {"useState", "useEffect", "useMemo", "useCallback",
                                "useRef", "useQuery", "useMutation"}}

NamedHookAt(t, p) == \E lit \in NamedHooks : StartsAt(t, p, lit)

\* hooks.custom, lines 690-691
CustomHooks(t) ==
    Cardinality({p \in 1..Len(t) : GenericHookAt(t, p)})
      - Cardinality({p \in 1..Len(t) : NamedHookAt(t, p)})

\* /<\w+[^>]*>/.test(content): a "<" followed by a word character and,
\* anywhere after it, a ">"
hasJsx(t) ==
    \E p \in 1..Len(t) :
        /\ t[p] = "<"
        /\ p + 1 <= Len(t) /\ t[p + 1] \in WordChars
        /\ \E q \in (p + 2)..Len(t) : t[q] = ">"

detectMixedConcerns_JsxInFirstBranch(t) ==
    \/ /\ hasJsx(t)
       /\ CountCalls(t, <<".", "m", "a", "p">>, {"("}) > 3
       /\ CountCalls(t, <<".", "f", "i", "l", "t", "e", "r">>, {"("}) > 2
    \/ CountCalls(t, <<"i", "f">>, {"("}) > 10

detectMixedConcerns(t) ==
    LET hasHeavyLogic ==
            \/ /\ CountCalls(t, <<".", "m", "a", "p">>, {"("}) > 3
               /\ CountCalls(t, <<".", "f", "i", "l", "t", "e", "r">>, {"("}) > 2
            \/ CountCalls(t, <<"i", "f">>, {"("}) > 10
    IN  hasJsx(t) /\ hasHeavyLogic

\* content.split("\n").length
LineCount(t) == 1 + Cardinality({p \in 1..Len(t) : t[p] = "\n"})

analyzeFile(file) ==
    IF ~file.readable THEN Unreadable
    ELSE LET t == file.content
         IN  [readable |-> TRUE,
              lines |-> LineCount(t),
              hooks |->
                [useState |-> CountCalls(t, HookText("useState"), {"<", "("}),
                 useEffect |-> CountCalls(t, HookText("useEffect"), {"("}),
                 useMemo |-> CountCalls(t, HookText("useMemo"), {"("}),
                 useCallback |-> CountCalls(t, HookText("useCallback"), {"("}),
                 useRef |-> CountCalls(t, HookText("useRef"), {"<", "("}),
                 useQuery |-> CountCalls(t, HookText("useQuery"), {"("}),
                 useMutation |-> CountCalls(t, HookText("useMutation"), {"("}),
                 custom |-> CustomHooks(t)],
              patterns |-> [mixedConcerns |-> detectMixedConcerns(t)]]

FragmentText(kind) ==
    CASE kind = "import" ->
          <<"i", "m", "p", "o", "r", "t", " ", "{", " ", "u", "s", "e", "S",
          "t", "a", "t", "e", " ", "}", " ", "f", "r", "o", "m", " ", "'",
          "r", "e", "a", "c", "t", "'">>
      [] kind = "state" ->
          <<"u", "s", "e", "S", "t", "a", "t", "e", "(", "0", ")">>
      [] kind = "stateTyped" ->
          <<"u", "s", "e", "S", "t", "a", "t", "e", "<", "T", ">", "(", "0",
          ")">>
      [] kind = "effect" ->
          <<"u", "s", "e", "E", "f", "f", "e", "c", "t", "(", "f", ")">>
      [] kind = "custom" ->
          <<"u", "s", "e", "A", "u", "t", "h", "(", ")">>
      [] kind = "map" ->
          <<"x", "s", ".", "m", "a", "p", "(", "f", ")">>
      [] kind = "mapSpaced" ->
          <<"x", "s", ".", "m", "a", "p", " ", "(", "f", ")">>
      [] kind = "filter" ->
          <<"x", "s", ".", "f", "i", "l", "t", "e", "r", "(", "f", ")">>
      [] kind = "if" ->
          <<"i", "f", " ", "(", "a", ")", " ", "b">>
      [] kind = "ifTight" ->
          <<"i", "f", "(", "a", ")", " ", "b">>
      [] kind = "tag" ->
          <<"<", "d", "i", "v", ">", "x", "<", "/", "d", "i", "v", ">">>
      [] kind = "compare" ->
          <<"a", " ", "<", " ", "b">>
      [] kind = "plain" ->
          <<"x", " ", "=", " ", "1">>

\* the fragments, one per line
RECURSIVE Written(_)
Written(parts) ==
    IF parts = <<>> THEN <<>>
    ELSE FragmentText(Head(parts)) \o <<"\n">> \o Written(Tail(parts))

MaxHookLines == 2   \* hook lines of a sampled file

HookLines ==
    SeqsUpTo({"import", "state", "stateTyped", "effect", "custom"}, MaxHookLines)

MarkupLines == {<<>>, <<"tag">>, <<"compare">>, <<"plain", "tag">>}

LogicLines ==
    {Repeat("map", m) \o Repeat("mapSpaced", 1) \o Repeat("filter", f)
       \o Repeat("if", n) \o Repeat("ifTight", 1) :
        m \in {0, 2, 3}, f \in {2, 3}, n \in {0, 9, 10}}

SourceFiles ==
    {h \o l \o m : h \in HookLines, l \in LogicLines, m \in MarkupLines}

InitAnalyze ==
    /\ pc = "analyze"
    /\ source \in [readable : BOOLEAN, parts : SourceFiles]
    /\ content = Written(source.parts)
    /\ analysis = "none"
    /\ totals = ZeroTotals /\ grade = "A"
    /\ IdlePipe /\ IdleCk /\ IdleCompact /\ IdleLf

\* const analysis = await analyzeFile(file), line 826
AnalyzeFile ==
    /\ pc = "analyze"
    /\ analysis' = analyzeFile([readable |-> source.readable, content |-> content])
    /\ pc' = "analyzed"
    /\ UNCHANGED <<source, content>>
    /\ UNCHANGED <<isQuick, configFound, checks, totals, grade, exitCode, spawned, written,
                   caughtIn, failure>>
    /\ UNCHANGED <<ckVars, compactVars, lfVars, mdVars>>

NextAnalyze == AnalyzeFile

SpecAnalyze == InitAnalyze /\ [][NextAnalyze]_vars

----------------------------------------------------------------------------
(* Claims about main() *)

RECURSIVE SumOver(_, _)
SumOver(cs, t) ==
    IF cs = <<>> THEN 0 ELSE CountType(Head(cs).issues, t) + SumOver(Tail(cs), t)

TotalsComputed ==
    \/ pc \in {"grade", "render", "writeMd", "writeJson", "exit"}
    \/ pc = "done" /\ failure \in {"none", "writeFile"}

\* C1: once the nine checks have returned and the totals are computed,
\* totals.errors, totals.warnings and totals.info are the numbers of error,
\* warning and info issues over all CheckResults, skipped ones included.
C1_TotalsAreSums ==
    TotalsComputed =>
        /\ Len(checks) = 9
        /\ totals.errors = SumOver(checks, "error")
        /\ totals.warnings = SumOver(checks, "warning")
        /\ totals.info = SumOver(checks, "info")

C1_Witness ==
    /\ TotalsComputed
    /\ \E k \in 1..Len(checks) : checks[k].status = "skip" /\ checks[k].issues # <<>>
    /\ totals.errors > 0 /\ totals.warnings > 0 /\ totals.info > 1

\* C4: when the process has ended, its exit status is non-zero exactly when
\* totals.errors > 0.
C4_ExitIffErrors ==
    pc = "done" => ((exitCode # 0) <=> (totals.errors > 0))

QuickSkipped ==
    {"Duplicate Code (jscpd)", "Dependency Graph (madge)", "Architecture Boundaries"}

ToolOf(name) ==
    CASE name = "Linting (oxlint)" -> {"oxlint"}
      [] name = "Import & Complexity (ESLint)" -> {"eslint"}
      [] name = "Dead Code (knip)" -> {"knip"}
      [] name = "TypeScript Types" -> {"turbo"}
      [] OTHER -> {}

\* C6: with --quick the jscpd, madge and architecture checks return skip,
\* no issues and the summary "Skipped (--quick mode)", and none of their
\* tools is spawned; the other six checks are never skipped and their tools
\* are spawned; a result with the quick-mode summary has no issues.
C6_QuickSkips ==
    /\ isQuick =>
          /\ \A k \in 1..Len(checks) :
                checks[k].name \in QuickSkipped =>
                    /\ checks[k].status = "skip"
                    /\ checks[k].issues = <<>>
                    /\ checks[k].summary = "Skipped (--quick mode)"
          /\ spawned \cap {"jscpd", "madge", "dependency-cruiser"} = {}
    /\ \A k \in 1..Len(checks) :
          /\ checks[k].name \notin QuickSkipped =>
                /\ checks[k].status # "skip"
                /\ ToolOf(checks[k].name) \subseteq spawned
          /\ checks[k].summary = "Skipped (--quick mode)" => checks[k].issues = <<>>

C6_Witness ==
    /\ isQuick /\ pc = "done" /\ failure = "none" /\ Len(checks) = 9
    /\ totals.errors > 0

\* C8: a check whose catch block ran still contributes its CheckResult, no
\* check makes main() reject, all nine results are present when the totals
\* are taken, and a run ends without both report files only because making
\* the log directory or writing a report file failed.
C8_ChecksIsolated ==
    /\ \A n \in caughtIn : \E k \in 1..Len(checks) : checks[k].name = n
    /\ failure # "check"
    /\ pc \in {"totals", "grade", "render", "writeMd", "writeJson", "exit"}
          => Len(checks) = 9
    /\ (pc = "done" /\ written # {"md", "json"}) => failure \in {"mkdir", "writeFile"}
    /\ (pc = "done" /\ failure \in {"none", "writeFile"}) => Len(checks) = 9

C8_Witness ==
    /\ pc = "done" /\ failure = "none" /\ written = {"md", "json"}
    /\ {"Linting (oxlint)", "Import & Complexity (ESLint)"} \subseteq caughtIn
    /\ Len(checks) = 9

CheckOrder ==
    <<"Linting (oxlint)", "Import & Complexity (ESLint)", "Dead Code (knip)",
      "Duplicate Code (jscpd)", "Dependency Graph (madge)", "TypeScript Types",
      "Complexity Analysis", "Architecture Boundaries", "Structure Analysis">>

\* the position in CheckOrder of the check that main is about to await
AwaitedCheck ==
    CASE pc = "oxlint" -> 1 [] pc = "eslint" -> 2 [] pc = "knip" -> 3
      [] pc = "jscpd" -> 4 [] pc = "madge" -> 5 [] pc = "tsc" -> 6
      [] pc = "complexity" -> 7 [] pc = "architecture" -> 8
      [] pc = "structure" -> 9 [] OTHER -> 0

\* the position in CheckOrder of the check that hands this tool to runCommand
SpawnedBy(tool) ==
    CASE tool = "oxlint" -> 1 [] tool = "eslint" -> 2 [] tool = "knip" -> 3
      [] tool = "jscpd" -> 4 [] tool = "madge" -> 5 [] tool = "turbo" -> 6
      [] tool = "dependency-cruiser" -> 8

\* C17: the checks run one after the other in the order oxlint, ESLint,
\* knip, jscpd, madge, TypeScript, complexity, architecture, structure: when
\* main is about to await the k-th check exactly the first k-1 results are in
\* checks, in that order; a tool is spawned only by a check whose
\* predecessors have all returned; totals, grade, the report text and the
\* report files exist only after all nine results are in.
C17_SequentialFixedOrder ==
    /\ Len(checks) <= 9
    /\ \A k \in 1..Len(checks) : checks[k].name = CheckOrder[k]
    /\ AwaitedCheck # 0 => Len(checks) = AwaitedCheck - 1
    /\ \A tool \in spawned : SpawnedBy(tool) <= Len(checks)
    /\ (\/ totals # ZeroTotals \/ grade # "A" \/ actionItems # <<>> \/ written # {}
        \/ pc \in {"totals", "grade", "render", "writeMd", "writeJson", "exit"})
          => Len(checks) = 9

C17_Witness ==
    /\ pc = "done" /\ failure = "none" /\ ~isQuick /\ configFound
    /\ Len(checks) = 9 /\ written = {"md", "json"}
    /\ spawned = {"oxlint", "eslint", "knip", "jscpd", "madge", "turbo",
                  "dependency-cruiser"}
    /\ totals.errors > 0 /\ grade # "A"

\* C18: without --quick and without .dependency-cruiser.cjs the
\* architecture check returns skip with exactly one info issue that names
\* the missing file, dependency-cruiser is never spawned, main goes on to
\* the structure check, and a run that ends without a write failure has all
\* nine results and both report files.
C18_ConfigMissingSkips ==
    (~isQuick /\ ~configFound) =>
        /\ "dependency-cruiser" \notin spawned
        /\ Len(checks) >= 8 =>
              /\ checks[8].name = "Architecture Boundaries"
              /\ checks[8].status = "skip"
              /\ checks[8].issues = <<ConfigMissingIssue>>
              /\ checks[8].issues[1].type = "info"
        /\ Len(checks) = 8 => pc = "structure"
        /\ failure # "check"
        /\ (pc = "done" /\ failure = "none") =>
              /\ Len(checks) = 9
              /\ checks[9].name = "Structure Analysis"
              /\ written = {"md", "json"}

C18_Witness ==
    /\ ~isQuick /\ ~configFound
    /\ pc = "done" /\ failure = "none"
    /\ checks[8].status = "skip" /\ Len(checks[8].issues) = 1
    /\ checks[9].issues # <<>>
    /\ written = {"md", "json"}

----------------------------------------------------------------------------
(* Claims about the priority action list *)

Rendered ==
    \/ pc \in {"writeMd", "writeJson", "exit"}
    \/ pc = "done" /\ failure \in {"none", "writeFile"}

CategoryRank(item) ==
    CASE item = "largeFiles" -> 1
      [] item = "complexComponents" -> 2
      [] item = "crowdedFolders" -> 3
      [] item = "violations" -> 4
      [] item = "dupes" -> 5
      [] item = "unusedFiles" -> 6
      [] item = "unusedExports" -> 7
      [] item = "circular" -> 8

NumberedItems == SelectSeq(actionItems, LAMBDA x : x.item # "noCriticalIssues")

\* C11: the numbered items of the action list come in the fixed category
\* order (oversized files, complex components, crowded folders,
\* architecture violations, duplicate blocks, dead files, dead exports,
\* circular dependencies) whatever their counts, and the k items carry the
\* numbers 1..k in order.
C11_FixedOrderRunningCounter ==
    Rendered =>
        \A k \in 1..Len(NumberedItems) :
            /\ NumberedItems[k].n = k
            /\ k > 1 => CategoryRank(NumberedItems[k - 1].item)
                          < CategoryRank(NumberedItems[k].item)

C11_Witness ==
    /\ Rendered /\ Len(NumberedItems) >= 5
    /\ \E k \in 1..(Len(NumberedItems) - 1) :
          NumberedItems[k].count < NumberedItems[k + 1].count
    /\ \E k \in 1..(Len(NumberedItems) - 1) :
          NumberedItems[k].count > NumberedItems[k + 1].count

\* the issues of the check with exactly this name
RECURSIVE ByName(_, _)
ByName(cs, name) ==
    IF cs = <<>> THEN <<>>
    ELSE IF Head(cs).name = name THEN Head(cs).issues
    ELSE ByName(Tail(cs), name)

\* some priority category has a matching issue: severities and counts as
\* the report filters them, each taken from the check that produces them
SomeCategoryHasIssue(cs) ==
    \/ CountRuleType(ByName(cs, "Complexity Analysis"), "complexity/file-size", "error") > 0
    \/ CountRuleType(ByName(cs, "Complexity Analysis"), "complexity/too-many-hooks",
                     "error") > 0
    \/ CountRule(ByName(cs, "Structure Analysis"), "structure/crowded-folder") > 0
    \/ CountType(ByName(cs, "Architecture Boundaries"), "error") > 0
    \/ CountType(ByName(cs, "Duplicate Code (jscpd)"), "warning") > 0
    \/ CountRule(ByName(cs, "Dead Code (knip)"), "knip/unused-file") > 0
    \/ CountRule(ByName(cs, "Dead Code (knip)"), "knip/unused-export") > 10
    \/ CountRule(ByName(cs, "Dependency Graph (madge)"), "madge/circular") > 0

NoIssuesAtAll(cs) == \A k \in 1..Len(cs) : cs[k].issues = <<>>

\* C12: the "no critical issues" item is in the list exactly when no
\* priority category has a matching issue, and is then the only item; when
\* some category has one, a numbered item is emitted; a run without any
\* issue has grade A, exit status 0 and only that item.
C12_NoCriticalIffNoCategory ==
    Rendered =>
        /\ (NumberedItems # actionItems) <=> ~SomeCategoryHasIssue(checks)
        /\ NumberedItems # actionItems => actionItems = <<NoCriticalIssues>>
        /\ SomeCategoryHasIssue(checks) => NumberedItems # <<>>
        /\ NoIssuesAtAll(checks) =>
              /\ grade = "A"
              /\ actionItems = <<NoCriticalIssues>>
              /\ pc = "done" => exitCode = 0

----------------------------------------------------------------------------
(* Claims about single checks *)

UniformStatus(issues) ==
    IF \E k \in 1..Len(issues) : issues[k].type = "error" THEN "fail"
    ELSE IF \E k \in 1..Len(issues) : issues[k].type = "warning" THEN "warn"
    ELSE "pass"

\* C5 as stated: a check that ran has status fail if it has an error issue,
\* else warn if it has a warning issue, else pass.
C5_UniformStatus ==
    (pc = "checked" /\ ckResult.result.status # "skip") =>
        ckResult.result.status = UniformStatus(ckResult.result.issues)

WarnLimit(check) ==
    CASE check = "jscpd" -> 10
      [] check = "complexity" -> 5
      [] check = "structure" -> 3
      [] OTHER -> 0

\* C5 amended: a check that ran has status fail if it has an error issue,
\* else warn if it has more warning issues than its limit (10 for jscpd,
\* 5 for complexity, 3 for structure, 0 for the others), else pass.
C5_StatusByLimit ==
    (pc = "checked" /\ ckResult.result.status # "skip") =>
        LET issues == ckResult.result.issues
        IN  ckResult.result.status =
              (IF CountType(issues, "error") > 0 THEN "fail"
               ELSE IF CountType(issues, "warning") > WarnLimit(ckInput.check)
                 THEN "warn"
               ELSE "pass")

C5_Witness ==
    /\ pc = "checked" /\ ckInput.check = "complexity"
    /\ CountType(ckResult.result.issues, "error") = 0
    /\ CountType(ckResult.result.issues, "warning") = 5
    /\ ckResult.result.status = "pass"

HasLine(text, markers) == \E k \in 1..Len(text) : text[k] \in markers

Evidence(check, out) ==
    CASE check \in {"oxlint", "eslint"} -> HasLine(out.text, {"error", "warning"})
      [] check = "knip" -> HasLine(out.text, {"unused"})
      [] check = "architecture" -> HasLine(out.text, {"error", "violation"})
      [] check = "jscpd" -> HasCloneFound(StripAnsi(out.text))

ParseFailed(check, out) ==
    check # "jscpd" /\ out.json \in {"invalid", "null", "object"}

\* C7: for the adapters with a fallback chain, when the structured parse
\* finds nothing it can walk and the raw output holds the adapter's marker,
\* the result has at least one issue, and a parse failure or an
\* unrecognised document never gives zero issues with status pass.
C7_NoSilentCleanResult ==
    (/\ pc = "checked"
     /\ ckInput.check \in {"oxlint", "eslint", "knip", "jscpd", "architecture"}
     /\ ckResult.result.status # "skip") =>
        /\ (/\ ckInput.check = "jscpd" \/ ParseFailed(ckInput.check, ckInput.out)
            /\ Evidence(ckInput.check, ckInput.out))
              => ckResult.result.issues # <<>>
        /\ ParseFailed(ckInput.check, ckInput.out) =>
              ~(ckResult.result.issues = <<>> /\ ckResult.result.status = "pass")

----------------------------------------------------------------------------
(* Claims about the complexity check *)

ComplexityChecked == pc = "checked" /\ ckInput.check = "complexity"

\* number of readable files of the run that satisfy P
CountFiles(files, P(_)) ==
    Len(SelectSeq(files, LAMBDA f : f.readable /\ P(f)))

FileSizeOf(issues, t) ==
    SelectSeq(issues, LAMBDA x : x.rule = "complexity/file-size" /\ x.type = t)

\* C13 as stated: a readable file of 500 lines or more gives exactly one
\* file-size error and no file-size warning, one of 300 to 499 lines
\* exactly one file-size warning, a shorter one none; the error names the
\* line count and 500.
C13_InclusiveFileSize ==
    ComplexityChecked =>
        LET files == ckInput.out.files
            issues == ckResult.result.issues
        IN  /\ Len(FileSizeOf(issues, "error"))
                 = CountFiles(files, LAMBDA f : f.lines >= 500)
            /\ Len(FileSizeOf(issues, "warning"))
                 = CountFiles(files, LAMBDA f : f.lines >= 300 /\ f.lines < 500)

\* C13 amended: the thresholds are exclusive.  A readable file of more than
\* 500 lines gives exactly one file-size error and no file-size warning,
\* one of 301 to 500 lines exactly one file-size warning, one of 300 lines
\* or fewer none; the error names the line count and 500, the warning the
\* line count and 300.
C13_ExclusiveFileSize ==
    ComplexityChecked =>
        LET files == ckInput.out.files
            issues == ckResult.result.issues
            errs == FileSizeOf(issues, "error")
            warns == FileSizeOf(issues, "warning")
        IN  /\ Len(errs) = CountFiles(files, LAMBDA f : f.lines > 500)
            /\ Len(warns) = CountFiles(files, LAMBDA f : f.lines > 300 /\ f.lines <= 500)
            /\ \A k \in 1..Len(errs) :
                  /\ errs[k].shown[2] = 500
                  /\ \E j \in 1..Len(files) :
                        files[j].readable /\ files[j].lines = errs[k].shown[1]
            /\ \A k \in 1..Len(warns) :
                  /\ warns[k].shown[2] = 300
                  /\ \E j \in 1..Len(files) :
                        files[j].readable /\ files[j].lines = warns[k].shown[1]

C13_Witness ==
    /\ ComplexityChecked
    /\ Len(ckInput.out.files) = 2
    /\ ckInput.out.files[1].readable /\ ckInput.out.files[1].lines = 500
    /\ Len(FileSizeOf(ckResult.result.issues, "warning")) = 2
    /\ FileSizeOf(ckResult.result.issues, "error") = <<>>

TotalHooks(f) ==
    f.hooks.useState + f.hooks.useEffect + f.hooks.useMemo + f.hooks.useCallback
      + f.hooks.useRef + f.hooks.custom

RuleTypeOf(issues, r, t) == SelectSeq(issues, LAMBDA x : x.rule = r /\ x.type = t)

HookRules ==
    {"complexity/too-many-hooks", "complexity/effect-sprawl",
     "complexity/over-memoization"}

\* C14: for component (.tsx) files a marker total of 10 or more gives one
\* error and a total of 6 to 9 one warning, never both; 4 or more effect
\* markers give one warning; 6 or more memo plus callback markers give one
\* warning; each of these issues has a non-empty fix string.
C14_HookSeverities ==
    ComplexityChecked =>
        LET files == ckInput.out.files
            issues == ckResult.result.issues
        IN  /\ Len(RuleTypeOf(issues, "complexity/too-many-hooks", "error"))
                 = CountFiles(files, LAMBDA f : f.tsx /\ TotalHooks(f) >= 10)
            /\ Len(RuleTypeOf(issues, "complexity/too-many-hooks", "warning"))
                 = CountFiles(files, LAMBDA f :
                       f.tsx /\ TotalHooks(f) >= 6 /\ TotalHooks(f) < 10)
            /\ Len(RuleTypeOf(issues, "complexity/effect-sprawl", "warning"))
                 = CountFiles(files, LAMBDA f : f.tsx /\ f.hooks.useEffect >= 4)
            /\ Len(RuleTypeOf(issues, "complexity/over-memoization", "warning"))
                 = CountFiles(files, LAMBDA f :
                       f.tsx /\ f.hooks.useMemo + f.hooks.useCallback >= 6)
            /\ \A k \in 1..Len(issues) :
                  issues[k].rule \in HookRules => issues[k].fix # ""

----------------------------------------------------------------------------
(* Claims about the structure check *)

StructureChecked == pc = "checked" /\ ckInput.check = "structure"

\* the paths of all directories below node, the base path left out
RECURSIVE AllDirs(_, _)
AllDirs(node, path) ==
    UNION {{Append(path, node.subs[k].name)}
             \cup AllDirs(node.subs[k], Append(path, node.subs[k].name)) :
           k \in 1..Len(node.subs)}

RECURSIVE NodeAt(_, _)
NodeAt(node, path) ==
    IF path = <<>> THEN node
    ELSE NodeAt(node.subs[CHOOSE k \in 1..Len(node.subs) : node.subs[k].name = Head(path)],
                Tail(path))

\* the issues of one rule and severity reported for the folder at path
FolderIssuesAt(issues, path, r, t) ==
    SelectSeq(issues, LAMBDA x :
        x.rule = r /\ x.type = t /\ x.file = <<"apps", "web", "src">> \o path)

One(c) == IF c THEN 1 ELSE 0

\* C15: for every analysed folder, depth and population are judged
\* independently and each breach gives exactly one issue at the folder's
\* path: depth >= 7 one error, depth 5..6 one warning, 25 or more immediate
\* files one error, 15..24 one warning, never an error and a warning of the
\* same dimension; folders without a breach get no such issue.
C15_FolderThresholds ==
    StructureChecked =>
        LET issues == ckResult.result.issues
        IN  /\ \A k \in 1..Len(folders) :
                  LET f == folders[k]
                  IN  /\ Len(FolderIssuesAt(issues, f.path, "structure/deep-nesting", "error"))
                           = One(f.depth >= 7)
                      /\ Len(FolderIssuesAt(issues, f.path, "structure/deep-nesting", "warning"))
                           = One(f.depth >= 5 /\ f.depth < 7)
                      /\ Len(FolderIssuesAt(issues, f.path, "structure/crowded-folder", "error"))
                           = One(f.fileCount >= 25)
                      /\ Len(FolderIssuesAt(issues, f.path, "structure/crowded-folder", "warning"))
                           = One(f.fileCount >= 15 /\ f.fileCount < 25)
            /\ \A j \in 1..Len(issues) :
                  issues[j].rule \in {"structure/deep-nesting", "structure/crowded-folder"}
                    => \E k \in 1..Len(folders) :
                          issues[j].file = <<"apps", "web", "src">> \o folders[k].path

C15_Witness ==
    /\ StructureChecked
    /\ \E k \in 1..Len(folders) :
          /\ folders[k].depth = 6 /\ folders[k].fileCount = 30
          /\ Len(FolderIssuesAt(ckResult.result.issues, folders[k].path,
                                "structure/crowded-folder", "error")) = 1
          /\ Len(FolderIssuesAt(ckResult.result.issues, folders[k].path,
                                "structure/deep-nesting", "warning")) = 1
    /\ \E k \in 1..Len(folders) :
          /\ folders[k].depth = 1 /\ folders[k].fileCount = 30
          /\ NodeAt(ckInput.out.tree, folders[k].path).subs = <<>>
          /\ Len(FolderIssuesAt(ckResult.result.issues, folders[k].path,
                                "structure/crowded-folder", "error")) = 1

\* readdir succeeds on the directory and on every directory above it
Accessible(tree, path) ==
    \A j \in 0..Len(path) : NodeAt(tree, SubSeq(path, 1, j)).readable

AnalysesOf(path) == SelectSeq(folders, LAMBDA f : f.path = path)

\* C16 as stated: exactly one FolderAnalysis for every directory below the
\* base path that is not ignored, none for the base path, and the depth of
\* each is the number of separators between its path and the base path.
C16_OnePerDirectory ==
    StructureChecked =>
        LET dirs == {p \in AllDirs(ckInput.out.tree, <<>>) : ~DirIncludesMarker(p)}
        IN  /\ \A p \in dirs : Len(AnalysesOf(p)) = 1
            /\ \A k \in 1..Len(folders) :
                  /\ folders[k].path \in dirs
                  /\ folders[k].depth = Len(folders[k].path)

\* C16 amended: exactly one FolderAnalysis for every directory below the
\* base path that is not ignored and that can be read together with all
\* the directories above it, none for any other directory or for the base
\* path, and the depth of each is the number of separators between its
\* path and the base path.
C16_OnePerAccessibleDirectory ==
    StructureChecked =>
        LET tree == ckInput.out.tree
            dirs == {p \in AllDirs(tree, <<>>) :
                        ~DirIncludesMarker(p) /\ Accessible(tree, p)}
        IN  /\ \A p \in dirs : Len(AnalysesOf(p)) = 1
            /\ \A k \in 1..Len(folders) :
                  /\ folders[k].path \in dirs
                  /\ folders[k].depth = Len(folders[k].path)

C16_Witness ==
    /\ StructureChecked
    /\ \E k \in 1..Len(folders) : folders[k].depth = 7
    /\ \E p \in AllDirs(ckInput.out.tree, <<>>) :
          ~NodeAt(ckInput.out.tree, p).readable
    /\ \E p \in AllDirs(ckInput.out.tree, <<>>) : DirIncludesMarker(p)

----------------------------------------------------------------------------
(* Claims about the jscpd check *)

JscpdChecked ==
    pc = "checked" /\ ckInput.check = "jscpd" /\ ckResult.result.status # "skip"

\* a well-formed block starts at line k: header, first file, second file
BlockAt(text, k) ==
    /\ k >= 1 /\ k + 2 <= Len(text)
    /\ text[k].kind = "clone" /\ text[k + 1].kind = "file1" /\ text[k + 2].kind = "file2"

\* the text is made of well-formed blocks with log or blank lines between
WellFormedBlocks(text) ==
    \A k \in 1..Len(text) :
        CASE text[k].kind = "clone" -> BlockAt(text, k)
          [] text[k].kind = "file1" -> BlockAt(text, k - 1)
          [] text[k].kind = "file2" -> BlockAt(text, k - 2)
          [] text[k].kind \in {"log", "blank"} -> TRUE
          [] OTHER -> FALSE

\* the file pairs of the blocks, in order
RECURSIVE BlockSpans(_, _)
BlockSpans(text, k) ==
    IF k > Len(text) THEN <<>>
    ELSE (IF BlockAt(text, k) THEN <<<<text[k + 1].span, text[k + 2].span>>>> ELSE <<>>)
         \o BlockSpans(text, k + 1)

WarningsOf(issues) == SelectSeq(issues, LAMBDA x : x.type = "warning")

\* C19: for an output made of k >= 1 well-formed Clone found blocks for
\* different file pairs, coloured or not, with or without log lines between
\* the blocks, the result has exactly k warning issues, the j-th of them
\* naming the two files and line ranges of the j-th block.
C19_OneWarningPerBlock ==
    (/\ JscpdChecked
     /\ WellFormedBlocks(ckInput.out.text)
     /\ BlockSpans(ckInput.out.text, 1) # <<>>) =>
        LET blocks == BlockSpans(ckInput.out.text, 1)
            warns == WarningsOf(ckResult.result.issues)
        IN  /\ Len(warns) = Len(blocks)
            /\ \A j \in 1..Len(blocks) : warns[j].spans = blocks[j]

C19_Witness ==
    /\ JscpdChecked
    /\ ckInput.out.text = CloneBlocks(3, "log", TRUE)
    /\ Len(WarningsOf(ckResult.result.issues)) = 3
    /\ WarningsOf(ckResult.result.issues)[3].spans = <<5, 6>>

----------------------------------------------------------------------------
(* Claims about compactIssue and detectLongFunctions *)

\* C9: two issues that differ in severity, file, line, message or rule
\* never have the same compact encoding.
C9_CompactInjective ==
    (pc = "compacted" /\ issueA # issueB) => compactA # compactB

\* lines from the declaring line to the line of the closing brace
Span(d) ==
    CASE d.kind = "oneLine" -> 0
      [] d.kind = "block" -> d.body + 1
      [] d.kind = "nested" -> d.body + 4

Balanced(ds) == \A k \in 1..Len(ds) : ds[k].kind # "unclosed"

LongDecls(ds) ==
    MapSeq(SelectSeq(ds, LAMBDA d : Span(d) > 80),
           LAMBDA d : [name |-> d.name, length |-> Span(d)])

\* C10: for a text of top-level function declarations with balanced braces
\* the result lists exactly the declarations that span more than 80 lines,
\* in order, each under its own name with its own span.
C10_ExactlyTheLongOnes ==
    (pc = "scanned" /\ Balanced(decls)) => longFunctions = LongDecls(decls)

\* '{' count minus '}' count of the lines s..e (0-based)
RECURSIVE Balance(_, _)
Balance(s, e) ==
    IF e < s THEN 0
    ELSE Balance(s, e - 1) + lines[e + 1].opens - lines[e + 1].closes

\* the iteration on line i, seen from the text alone
ClosesAsStated ==
    IF inFunction
      THEN LET s == functionStartLine
               closes == Balance(s, i) <= 0
           IN  /\ inFunction' = ~closes
               /\ longFunctions' =
                     IF closes /\ i - s > 80
                       THEN Append(longFunctions,
                                [name |-> lines[s + 1].intro, length |-> i - s])
                     ELSE longFunctions
               /\ ~closes => functionStartLine' = s
    ELSE /\ inFunction' = (lines[i + 1].intro # "")
         /\ inFunction' => functionStartLine' = i
         /\ longFunctions' = longFunctions

NestedIntroduction ==
    pc = "scan" /\ i < Len(lines) /\ inFunction /\ lines[i + 1].intro # ""

NestedLong(ds) ==
    MapSeq(SelectSeq(ds, LAMBDA d : d.kind = "nested" /\ Span(d) > 80),
           LAMBDA d : [name |-> d.name, length |-> Span(d)])

ReportedUnder(names) ==
    SelectSeq(longFunctions, LAMBDA f : f.name \in names)

\* C21: an iteration on a function-introduction line met while a function
\* is tracked keeps currentFunction and functionStartLine and changes
\* braceDepth by the braces of the line only; and for a text of balanced
\* declarations, every outer function that spans more than 80 lines and
\* contains a short inner function is in the result exactly once, under
\* the outer name, and the inner name is never in the result.
C21_NestedIgnored ==
    /\ [][NestedIntroduction =>
            /\ currentFunction' = currentFunction
            /\ functionStartLine' = functionStartLine
            /\ braceDepth' = braceDepth + lines[i + 1].opens
                                        - lines[i + 1].closes]_vars
    /\ []((pc = "scanned" /\ Balanced(decls)) =>
            /\ ReportedUnder({"inner"}) = <<>>
            /\ ReportedUnder({decls[k].name : k \in {n \in 1..Len(decls) : decls[n].kind = "nested"}})
                  = NestedLong(decls))

----------------------------------------------------------------------------
(* Claims about analyzeFile *)

Analyzed == pc = "analyzed" /\ source.readable

\* lines of the file written from a fragment of one of the kinds
LinesOf(kinds) == Len(SelectSeq(source.parts, LAMBDA x : x \in kinds))

MapCallsWritten == LinesOf({"map", "mapSpaced"})

FilterCallsWritten == LinesOf({"filter"})

IfConditionsWritten == LinesOf({"if", "ifTight"})

\* an element and a type argument are tag-like, a comparison is not
TagLikeWritten == LinesOf({"tag", "stateTyped"}) > 0

\* C22: the mixedConcerns pattern of a file is true iff the file has a
\* tag-like construct and either more than 3 map calls together with more
\* than 2 filter calls, or more than 10 if conditions; without a tag-like
\* construct it is false whatever the three counts.
C22_MixedConcernsGrouping ==
    Analyzed =>
        /\ analysis.patterns.mixedConcerns =
              (/\ TagLikeWritten
               /\ \/ MapCallsWritten > 3 /\ FilterCallsWritten > 2
                  \/ IfConditionsWritten > 10)
        /\ ~TagLikeWritten => ~analysis.patterns.mixedConcerns

C22_Witness ==
    /\ Analyzed
    /\ ~TagLikeWritten
    /\ LinesOf({"compare"}) = 1
    /\ MapCallsWritten = 4 /\ FilterCallsWritten = 3 /\ IfConditionsWritten = 11
    /\ ~analysis.patterns.mixedConcerns

\* C23: the custom count of a file is never negative, and the hook total
\* checkComplexity forms with it is never below the sum of the useState,
\* useEffect, useMemo, useCallback and useRef counts.
C23_CustomNeverNegative ==
    Analyzed =>
        /\ analysis.hooks.custom >= 0
        /\ TotalHooks(analysis) >=
              analysis.hooks.useState + analysis.hooks.useEffect
                + analysis.hooks.useMemo + analysis.hooks.useCallback
                + analysis.hooks.useRef

----------------------------------------------------------------------------
(* Claims about status, skipped checks and the exit status *)

\* main() ran to process.exit (line 1553)
Completed == pc = "done" /\ failure = "none"

Failing(cs) == {k \in 1..Len(cs) : cs[k].status = "fail"}

WithErrors(cs) == {k \in 1..Len(cs) : CountType(cs[k].issues, "error") > 0}

\* C24: a CheckResult of the report has status fail iff it has an error
\* issue, and a run that reached process.exit has a non-zero exit status
\* iff some CheckResult of the report has status fail.
C24_ExitIffSomeCheckFails ==
    /\ Failing(checks) = WithErrors(checks)
    /\ Completed => ((exitCode # 0) <=> (Failing(checks) # {}))

C24_Witness ==
    /\ Completed
    /\ exitCode = 1
    /\ Cardinality(Failing(checks)) = 1
    /\ \E k \in 1..Len(checks) : checks[k].status = "warn"
    /\ \E k \in Failing(checks) : checks[k].name = "TypeScript Types"

SaysNoCriticalIssues ==
    \E k \in 1..Len(actionItems) : actionItems[k] = NoCriticalIssues

\* C25: once the report is rendered, its action list holds the "no
\* critical issues" line only if totals.errors is 0, the grade is not F
\* and the exit status, once set, is 0.
C25_NoCriticalOnlyWithoutErrors ==
    (Rendered /\ SaysNoCriticalIssues) =>
        /\ totals.errors = 0
        /\ grade # "F"
        /\ exitCode \in {-1, 0}

GradeComputed ==
    \/ pc \in {"render", "writeMd", "writeJson", "exit"}
    \/ pc = "done" /\ failure \in {"none", "writeFile"}

\* the CheckResults of the checks that were not skipped
Ran(cs) == SelectSeq(cs, LAMBDA c : c.status # "skip")

\* C28: a CheckResult with status skip has no error and no warning issue
\* (its issues, if any, are info issues), and totals.errors,
\* totals.warnings, the grade and the exit status are what the checks that
\* were not skipped give alone.
C28_SkipCarriesOnlyInfo ==
    /\ \A k \in 1..Len(checks) :
          checks[k].status = "skip" =>
              \A n \in 1..Len(checks[k].issues) : checks[k].issues[n].type = "info"
    /\ TotalsComputed =>
          /\ totals.errors = SumOver(Ran(checks), "error")
          /\ totals.warnings = SumOver(Ran(checks), "warning")
    /\ GradeComputed => grade = calculateGrade(CalcTotals(Ran(checks), ZeroTotals))
    /\ Completed => exitCode = ExitStatus(CalcTotals(Ran(checks), ZeroTotals))

C28_Witness ==
    /\ Completed
    /\ \E k \in 1..Len(checks) :
          checks[k].status = "skip" /\ checks[k].issues = <<ConfigMissingIssue>>
    /\ totals.info = 1 /\ totals.errors > 0
    /\ exitCode = 1

----------------------------------------------------------------------------
(* Claims about the duplicate-code check *)

\* the output, escape sequences removed, contains "Clone found"
ContainsCloneFound(text) ==
    \E k \in 1..Len(text) : text[k].kind \in {"clone", "cloneBare"}

DuplicateWarnings(issues) ==
    SelectSeq(issues, LAMBDA x : x.type = "warning" /\ x.rule = "jscpd/duplicate")

\* C26: when checkJscpd ran and its output, escape sequences removed,
\* contains "Clone found", the result has at least one warning issue with
\* rule jscpd/duplicate, whatever lines follow the marker.
C26_CloneFoundGivesWarning ==
    (JscpdChecked /\ ContainsCloneFound(ckInput.out.text)) =>
        DuplicateWarnings(ckResult.result.issues) # <<>>

C26_Witness ==
    /\ JscpdChecked
    /\ Len(ckInput.out.text) = 3
    /\ ckInput.out.text[1].kind = "cloneBare"
    /\ ckInput.out.text[2].kind = "file2flush"
    /\ ckInput.out.text[3].kind = "log"
    /\ ckInput.out.stats
    /\ DuplicateWarnings(ckResult.result.issues) = <<CountOnlyIssue>>

====
